---- MODULE Spec2Model ----
(***************************************************************************)
(* TaskForge backend: users, JWT sessions, projects, memberships, tasks.   *)
(* Every action is one awaited call of one HTTP request, with the code that *)
(* runs after it up to the next await. A request behind authenticateToken  *)
(* arrives and has its token verified against the clock (Start...), the     *)
(* middleware's SELECT of the user and the rest of the chain are the next  *)
(* step (...Auth), and each query of the handler, and each bcrypt.compare  *)
(* that is followed by a response or a read of the clock, is a step of its *)
(* own; steps of other requests run in between.                            *)
(***************************************************************************)
EXTENDS Integers, Sequences, FiniteSets, TLC

\* ------------------------------------------------------------------ bounds
MaxUsers == 2
MaxProjects == 1
MaxTasks == 1
MaxComments == 1
MaxInflight == 2
MaxTokens == 3
MaxTime == 1123200
TickStep == 561600

\* ------------------------------------------------------- program constants
JWT_EXPIRY == 604800
RefreshWindow == 86400
NULL == -1

JWT_SECRET == "taskforge-secret"
OtherSecret == "attacker-secret"

GlobalRoles == {"admin", "manager", "member"}
ProjectRoles == {"owner", "admin", "member", "viewer"}
\* body('role').optional().isIn(['admin', 'member', 'viewer'])
AddableRoles == {"admin", "member", "viewer"}
TaskStatuses == {"todo", "in_progress", "review", "done", "cancelled"}
ProjectStatuses == {"active", "archived", "completed"}
\* the body fields PUT /api/projects/:id recognizes (of which the model keeps two)
ProjectFields == {"name", "status"}

\* ------------------------------------------------------------ input sets
UserIds == 1..MaxUsers
ProjectIds == 1..MaxProjects
TaskIds == 1..MaxTasks
CommentIds == 1..MaxComments
Username(n) == <<"user", n>>
Email(n) == <<"mail", n>>
Usernames == {Username(n) : n \in 1..MaxUsers}
Emails == {Email(n) : n \in 1..MaxUsers}
NoName == <<"none", 0>>
Passwords == {"pw1", "pw2"}
\* a field the request body does not carry (undefined): strings, names, ids
Absent == "absent"
AbsentId == 0
InStatuses == {"todo", "done"}
InMemberRoles == {"admin", "member"}

VARIABLES users, tokens, now, projects, project_members, tasks, comments,
          sqlite_sequence, activity_log_ok, inflight, logged, req, res

vars == <<users, tokens, now, projects, project_members, tasks, comments,
          sqlite_sequence, activity_log_ok, inflight, logged, req, res>>
userTables == <<users, tokens>>
workTables == <<projects, project_members, tasks, comments, sqlite_sequence>>
\* the activity_log table accepting inserts, and the handlers suspended at an await
outside == <<activity_log_ok, inflight>>

\* ------------------------------------------------------------ request/response
NoToken == [userId |-> 0, username |-> NoName, role |-> "none", exp |-> 0, key |-> "none"]
NoUser == [id |-> 0, username |-> NoName, email |-> NoName, full_name |-> "none",
           role |-> "none", is_active |-> FALSE]
NoBody == [none |-> TRUE]

Request(op, token, id, body) == [op |-> op, token |-> token, id |-> id, body |-> body]
Response(status, error, user, body, ran) ==
  [status |-> status, error |-> error, user |-> user, body |-> body,
   newToken |-> NoToken, handlerRan |-> ran, changes |-> 0]

IdleReq == Request("idle", NoToken, 0, NoBody)
IdleRes == Response(0, "", NoUser, NoBody, FALSE)

LogRow(user_id, action, entity_type, entity_id) ==
  [user_id |-> user_id, action |-> action, entity_type |-> entity_type, entity_id |-> entity_id]

\* ------------------------------------------------------------ token service
\* jwt.sign(payload, JWT_SECRET, {expiresIn: '7d'})
generateToken(user) ==
  [userId |-> user.id, username |-> user.username, role |-> user.role,
   exp |-> now + JWT_EXPIRY, key |-> JWT_SECRET]

jwt_verify_noExpiry(token, secret) ==
  IF token.key # secret THEN "JsonWebTokenError" ELSE "ok"

\* jwt.verify: the signature is checked first, then the expiry (now >= exp)
jwt_verify(token, secret) ==
  IF token.key # secret THEN "JsonWebTokenError"
  ELSE IF now >= token.exp THEN "TokenExpiredError"
  ELSE "ok"

UserRow(id) == users[id]
UserExists(id) == id \in 1..Len(users)

\* the row authenticateToken selects: id, username, email, full_name, role, is_active
Principal(u) ==
  [id |-> u.id, username |-> u.username, email |-> u.email, full_name |-> u.full_name,
   role |-> u.role, is_active |-> u.is_active]

\* authenticateToken up to its await: the Authorization header and
\* jwt.verify(token, JWT_SECRET), read against the clock of the arrival; the
\* catch block turns the two jwt errors into 401s
decoded(token) ==
  IF token = NoToken THEN [ok |-> FALSE, error |-> "Access token required"]
  ELSE IF jwt_verify(token, JWT_SECRET) = "JsonWebTokenError"
    THEN [ok |-> FALSE, error |-> "Invalid token"]
  ELSE IF jwt_verify(token, JWT_SECRET) = "TokenExpiredError"
    THEN [ok |-> FALSE, error |-> "Token expired"]
  ELSE [ok |-> TRUE, error |-> ""]

authenticateToken_roleFromToken(token) ==
  IF ~UserExists(token.userId)
    THEN [ok |-> FALSE, error |-> "User not found", user |-> NoUser]
  ELSE IF ~UserRow(token.userId).is_active
    THEN [ok |-> FALSE, error |-> "Account is deactivated", user |-> NoUser]
  ELSE [ok |-> TRUE, error |-> "",
        user |-> [Principal(UserRow(token.userId)) EXCEPT !.role = token.role]]

authenticateToken_roleMustMatch(token) ==
  IF ~UserExists(token.userId)
    THEN [ok |-> FALSE, error |-> "User not found", user |-> NoUser]
  ELSE IF ~UserRow(token.userId).is_active
    THEN [ok |-> FALSE, error |-> "Account is deactivated", user |-> NoUser]
  ELSE IF UserRow(token.userId).role # token.role
    THEN [ok |-> FALSE, error |-> "Invalid token", user |-> NoUser]
  ELSE [ok |-> TRUE, error |-> "", user |-> Principal(UserRow(token.userId))]

authenticateToken_noActiveCheck(token) ==
  IF ~UserExists(token.userId)
    THEN [ok |-> FALSE, error |-> "User not found", user |-> NoUser]
  ELSE [ok |-> TRUE, error |-> "", user |-> Principal(UserRow(token.userId))]

\* authenticateToken after its await: const user = await getOne('SELECT id,
\* username, email, full_name, role, is_active FROM users WHERE id = ?',
\* [decoded.userId]) and the two 401s on the row; req.user is the row
authenticateToken(token) ==
  IF ~UserExists(token.userId)
    THEN [ok |-> FALSE, error |-> "User not found", user |-> NoUser]
  ELSE IF ~UserRow(token.userId).is_active
    THEN [ok |-> FALSE, error |-> "Account is deactivated", user |-> NoUser]
  ELSE [ok |-> TRUE, error |-> "", user |-> Principal(UserRow(token.userId))]

\* requireRole(['admin', 'manager']), exported as requireManager
requireAdmin_managers(user) == user.role \in {"admin", "manager"}

\* requireRole(['admin'])
requireAdmin(user) == user.role \in {"admin"}

\* refreshTokenMiddleware: a replacement token when less than one day is left
refreshTokenMiddleware(user, token) ==
  IF user # NoUser /\ token # NoToken /\ token.exp - now < RefreshWindow
  THEN generateToken(user) ELSE NoToken

\* the middleware app.js mounts (app.use) and the route chains apply
Mounted == {"helmet", "cors", "express.json", "express.urlencoded", "authenticateToken",
            "requireAdmin"}

\* the X-New-Token header of a response
XNewToken(user, token) ==
  IF "refreshTokenMiddleware" \in Mounted THEN refreshTokenMiddleware(user, token) ELSE NoToken

Unauthorized(a) == Response(401, a.error, NoUser, NoBody, FALSE)
Reply(status, error, user, body) == Response(status, error, user, body, TRUE)
\* the reply of a route behind authenticateToken, with its X-New-Token header
ReplyT(token, status, error, user, body) ==
  [Reply(status, error, user, body) EXCEPT !.newToken = XNewToken(user, token)]

\* ------------------------------------------------------------ handlers in flight
NoRow == [none |-> TRUE]

\* a handler suspended at an await: its request, req.user, the rows and counts
\* its queries returned, the token it has signed, the activity_log rows it has
\* inserted and the row count of its INSERT, UPDATE or DELETE
Handler(op, token, user, id, body, pc) ==
  [op |-> op, token |-> token, user |-> user, id |-> id, body |-> body, pc |-> pc,
   row |-> NoRow, count |-> 0, issued |-> NoToken, rows |-> <<>>, changes |-> 0]

At(s, op, pc) == s \in DOMAIN inflight /\ inflight[s].op = op /\ inflight[s].pc = pc
Drop(q, s) == [i \in 1..(Len(q) - 1) |-> IF i < s THEN q[i] ELSE q[i + 1]]

\* no response leaves in this step
Suspended == req' = IdleReq /\ res' = IdleRes /\ logged' = <<>>
\* the step writes to no table
Reads == UNCHANGED <<users, tokens, now, workTables, activity_log_ok>>

\* the chain answers before the handler awaits a query of its own
Answer(op, token, id, body, response) ==
  /\ req' = Request(op, token, id, body)
  /\ res' = response
  /\ logged' = <<>>
  /\ UNCHANGED inflight

\* the handler awaits its next query
Enter(h) == Len(inflight) < MaxInflight /\ inflight' = Append(inflight, h) /\ Suspended
Continue(s, h) == inflight' = [inflight EXCEPT ![s] = h] /\ Suspended
Goto(s, pc) == Continue(s, [inflight[s] EXCEPT !.pc = pc])

\* a request behind authenticateToken arrives: the middleware checks the header
\* and the token at once, then awaits its SELECT of the user
Arrive(op, token, id, body) ==
  LET d == decoded(token)
  IN /\ Reads
     /\ IF ~d.ok THEN Answer(op, token, id, body, Unauthorized(d))
        ELSE Enter(Handler(op, token, NoUser, id, body, "auth"))

\* req.user = user; next(): the chain goes on to the handler's first query
Admit(s, user, pc) == Continue(s, [inflight[s] EXCEPT !.user = user, !.pc = pc])

\* the chain answers after the middleware's SELECT, before any query of the handler
Refuse(s, response) ==
  LET h == inflight[s]
  IN /\ inflight' = Drop(inflight, s)
     /\ req' = Request(h.op, h.token, h.id, h.body)
     /\ res' = response
     /\ logged' = <<>>

\* res.status(status).json(...): the handler is finished
Respond(s, h, status, error, body) ==
  /\ inflight' = Drop(inflight, s)
  /\ req' = Request(h.op, h.token, h.id, h.body)
  /\ res' = [ReplyT(h.token, status, error, h.user, body) EXCEPT !.changes = h.changes]
  /\ logged' = h.rows

\* await runQuery('INSERT INTO activity_log ...') and the response after it; a
\* rejected insert throws into the handler's catch block, which answers 500
LogAndReply(s, row, status, body, failure) ==
  LET h == inflight[s]
  IN IF activity_log_ok
     THEN Respond(s, [h EXCEPT !.rows = Append(@, row)], status, "", body)
     ELSE Respond(s, h, 500, failure, NoBody)

\* handlers in flight at one of the given awaits of a route
Pending(op, pcs) == Cardinality({s \in DOMAIN inflight : inflight[s].op = op /\ inflight[s].pc \in pcs})

\* tokens a client can present: issued ones, none, or one signed with another key
Forged(t) == [t EXCEPT !.key = OtherSecret]
Presentable == tokens \cup {NoToken} \cup {Forged(t) : t \in tokens}

Init ==
  /\ users = <<>>
  /\ tokens = {}
  /\ now = 0
  /\ projects = <<>>
  /\ project_members = {}
  /\ tasks = <<>>
  /\ comments = <<>>
  /\ sqlite_sequence = [projects |-> 0, tasks |-> 0, comments |-> 0]
  /\ activity_log_ok = TRUE
  /\ inflight = <<>>
  /\ logged = <<>>
  /\ req = IdleReq
  /\ res = IdleRes

\* ------------------------------------------------------------ auth routes
bcrypt_hash(password) == <<"bcrypt", password>>
bcrypt_compare(password, hash) == hash = bcrypt_hash(password)

firstUserRole_secondToo(count) == IF count <= 1 THEN "admin" ELSE "member"

\* role = userCount.count === 0 ? 'admin' : 'member'
firstUserRole(count) == IF count = 0 THEN "admin" ELSE "member"

\* SELECT id FROM users WHERE username = ? OR email = ?
existingUser(username, email) ==
  \E i \in 1..Len(users) : users[i].username = username \/ users[i].email = email

\* POST /api/auth/register: the validators and
\* const existingUser = await getOne('SELECT id FROM users WHERE username = ? OR email = ?')
StartRegister(username, email, password, fullName) ==
  LET op == "POST /api/auth/register"
      body == [username |-> username, email |-> email, password |-> password,
               fullName |-> fullName]
  IN /\ Reads
     /\ IF existingUser(username, email)
        THEN Answer(op, NoToken, 0, body,
                    Reply(409, "User already exists with this username or email",
                          NoUser, NoBody))
        ELSE /\ Len(users) + Pending(op, {"count", "insert"}) < MaxUsers
             /\ Enter(Handler(op, NoToken, NoUser, 0, body, "count"))

\* const userCount = await getOne('SELECT COUNT(*) as count FROM users')
RegisterCount(s) ==
  /\ At(s, "POST /api/auth/register", "count")
  /\ Reads
  /\ Continue(s, [inflight[s] EXCEPT !.count = Len(users), !.pc = "insert"])

\* const result = await runQuery('INSERT INTO users ...'): username and email
\* are UNIQUE, id is AUTOINCREMENT
RegisterInsert(s) ==
  LET h == inflight[s]
      user == [id |-> Len(users) + 1, username |-> h.body.username, email |-> h.body.email,
               password_hash |-> bcrypt_hash(h.body.password), full_name |-> h.body.fullName,
               role |-> firstUserRole(h.count), is_active |-> TRUE]
  IN /\ At(s, "POST /api/auth/register", "insert")
     /\ UNCHANGED <<tokens, now, workTables, activity_log_ok>>
     /\ IF existingUser(h.body.username, h.body.email)
        THEN Respond(s, h, 500, "Registration failed", NoBody) /\ UNCHANGED users
        ELSE /\ users' = Append(users, user)
             /\ Continue(s, [h EXCEPT !.id = user.id, !.changes = 1, !.pc = "select"])

\* const user = await getOne('SELECT id, username, email, full_name, role FROM users
\* WHERE id = ?'), then generateToken(user)
RegisterSelect(s) ==
  LET h == inflight[s]
      user == [id |-> users[h.id].id, username |-> users[h.id].username,
               email |-> users[h.id].email, full_name |-> users[h.id].full_name,
               role |-> users[h.id].role]
  IN /\ At(s, "POST /api/auth/register", "select")
     /\ Reads
     /\ Continue(s, [h EXCEPT !.row = user, !.issued = generateToken(user), !.pc = "log"])

\* await runQuery('INSERT INTO activity_log ...'), then res.status(201).json;
\* the token reaches the client in the 201 response only
RegisterLog(s) ==
  LET h == inflight[s]
  IN /\ At(s, "POST /api/auth/register", "log")
     /\ UNCHANGED <<users, now, workTables, activity_log_ok>>
     /\ tokens' = IF activity_log_ok THEN tokens \cup {h.issued} ELSE tokens
     /\ LogAndReply(s, LogRow(h.row.id, "user_registered", "user", h.row.id), 201,
                    [user |-> h.row, token |-> h.issued, isFirstUser |-> (h.count = 0)],
                    "Registration failed")

\* tokens signed by handlers that have not answered yet
Signing == {inflight[s].issued : s \in DOMAIN inflight} \ {NoToken}

\* POST /api/auth/login: the validators and
\* const user = await getOne('SELECT ... FROM users WHERE username = ? OR email = ?'),
\* with the 401s for no row and for a deactivated account; the handler then
\* awaits bcrypt.compare with the row it has read
StartLogin(ident, password) ==
  LET op == "POST /api/auth/login"
      body == [username |-> ident, password |-> password]
      found == {i \in 1..Len(users) : users[i].username = ident \/ users[i].email = ident}
      user == users[CHOOSE i \in found : TRUE]
  IN /\ Reads
     /\ IF found = {}
        THEN Answer(op, NoToken, 0, body, Reply(401, "Invalid credentials", NoUser, NoBody))
        ELSE IF ~user.is_active
        THEN Answer(op, NoToken, 0, body, Reply(401, "Account is deactivated", NoUser, NoBody))
        ELSE /\ Cardinality(tokens \cup Signing) + Pending(op, {"compare"}) < MaxTokens
             /\ Enter([Handler(op, NoToken, NoUser, 0, body, "compare") EXCEPT !.row = user])

\* const isValidPassword = await bcrypt.compare(password, user.password_hash),
\* then generateToken(user): the row is the one read before the wait, the
\* clock the one after it
LoginCompare(s) ==
  LET h == inflight[s]
  IN /\ At(s, "POST /api/auth/login", "compare")
     /\ Reads
     /\ IF ~bcrypt_compare(h.body.password, h.row.password_hash)
        THEN Respond(s, h, 401, "Invalid credentials", NoBody)
        ELSE Continue(s, [h EXCEPT !.row = Principal(h.row), !.issued = generateToken(h.row),
                                   !.pc = "log"])

\* await runQuery('INSERT INTO activity_log ...'), then res.json
LoginLog(s) ==
  LET h == inflight[s]
  IN /\ At(s, "POST /api/auth/login", "log")
     /\ UNCHANGED <<users, now, workTables, activity_log_ok>>
     /\ tokens' = IF activity_log_ok THEN tokens \cup {h.issued} ELSE tokens
     /\ LogAndReply(s, LogRow(h.row.id, "user_login", "session", NULL), 200,
                    [user |-> h.row, token |-> h.issued], "Login failed")

\* GET /api/auth/me arrives: authenticateToken up to its await
StartGetMe(token) ==
  LET op == "GET /api/auth/me"
  IN Arrive(op, token, 0, NoBody)

\* authenticateToken's SELECT of the user, then next()
GetMeAuth(s) ==
  LET h == inflight[s]
      a == authenticateToken(h.token)
  IN /\ At(s, "GET /api/auth/me", "auth")
     /\ Reads
     /\ IF ~a.ok THEN Refuse(s, Unauthorized(a))
        ELSE Admit(s, a.user, "stats")

\* const stats = await getOne('SELECT (SELECT COUNT(*) ...) ...'), then
\* res.json({user, stats}) with user = req.user
GetMeStats(s) ==
  /\ At(s, "GET /api/auth/me", "stats")
  /\ Reads
  /\ Respond(s, inflight[s], 200, "", [user |-> inflight[s].user])

\* POST /api/auth/change-password arrives: authenticateToken up to its await
StartChangePassword(token, currentPassword, newPassword) ==
  LET op == "POST /api/auth/change-password"
      body == [currentPassword |-> currentPassword, newPassword |-> newPassword]
  IN Arrive(op, token, 0, body)

\* authenticateToken's SELECT of the user, then the validators
ChangePasswordAuth(s) ==
  LET h == inflight[s]
      a == authenticateToken(h.token)
  IN /\ At(s, "POST /api/auth/change-password", "auth")
     /\ Reads
     /\ IF ~a.ok THEN Refuse(s, Unauthorized(a))
        ELSE Admit(s, a.user, "getUser")

\* const user = await getOne('SELECT password_hash FROM users WHERE id = ?')
ChangePasswordGetUser(s) ==
  LET h == inflight[s]
  IN /\ At(s, "POST /api/auth/change-password", "getUser")
     /\ Reads
     /\ Continue(s, [h EXCEPT !.row = [password_hash |-> users[h.user.id].password_hash],
                              !.pc = "compare"])

\* const isValidPassword = await bcrypt.compare(currentPassword, user.password_hash)
ChangePasswordCompare(s) ==
  LET h == inflight[s]
  IN /\ At(s, "POST /api/auth/change-password", "compare")
     /\ Reads
     /\ IF ~bcrypt_compare(h.body.currentPassword, h.row.password_hash)
        THEN Respond(s, h, 401, "Current password is incorrect", NoBody)
        ELSE Goto(s, "update")

\* await runQuery('UPDATE users SET password_hash = ? WHERE id = ?')
ChangePasswordUpdate(s) ==
  LET h == inflight[s]
  IN /\ At(s, "POST /api/auth/change-password", "update")
     /\ users' = [users EXCEPT ![h.user.id].password_hash = bcrypt_hash(h.body.newPassword)]
     /\ UNCHANGED <<tokens, now, workTables, activity_log_ok>>
     /\ Continue(s, [h EXCEPT !.changes = 1, !.pc = "log"])

\* await runQuery('INSERT INTO activity_log ...'), then res.json
ChangePasswordLog(s) ==
  LET h == inflight[s]
  IN /\ At(s, "POST /api/auth/change-password", "log")
     /\ Reads
     /\ LogAndReply(s, LogRow(h.user.id, "password_changed", "user", NULL), 200, NoBody,
                    "Failed to change password")

\* POST /api/auth/logout arrives: authenticateToken up to its await
StartLogout(token) ==
  LET op == "POST /api/auth/logout"
  IN Arrive(op, token, 0, NoBody)

\* authenticateToken's SELECT of the user, then next()
LogoutAuth(s) ==
  LET h == inflight[s]
      a == authenticateToken(h.token)
  IN /\ At(s, "POST /api/auth/logout", "auth")
     /\ Reads
     /\ IF ~a.ok THEN Refuse(s, Unauthorized(a))
        ELSE Admit(s, a.user, "log")

\* await runQuery('INSERT INTO activity_log ...'), then res.json
LogoutLog(s) ==
  LET h == inflight[s]
  IN /\ At(s, "POST /api/auth/logout", "log")
     /\ Reads
     /\ LogAndReply(s, LogRow(h.user.id, "user_logout", "session", NULL), 200, NoBody,
                    "Logout failed")

\* the clock advances while requests are handled
Tick ==
  /\ now < MaxTime
  /\ now' = now + TickStep
  /\ req' = IdleReq
  /\ res' = IdleRes
  /\ logged' = <<>>
  /\ UNCHANGED <<users, tokens, workTables, outside>>

\* ------------------------------------------------------------ user routes
SetUser(id, field, value) == [users EXCEPT ![id] = [users[id] EXCEPT ![field] = value]]

adminCount_anyStatus == Cardinality({i \in 1..Len(users) : users[i].role = "admin"})

\* SELECT COUNT(*) FROM users WHERE role = 'admin' AND is_active = 1
adminCount == Cardinality({i \in 1..Len(users) : users[i].role = "admin" /\ users[i].is_active})

\* the 403 of requireRole: the handler is not run
Forbidden(user) == Response(403, "Insufficient permissions", user, NoBody, FALSE)

\* GET /api/users arrives: authenticateToken up to its await
StartListUsers(token) ==
  LET op == "GET /api/users"
  IN Arrive(op, token, 0, NoBody)

\* authenticateToken's SELECT of the user, then requireAdmin
ListUsersAuth(s) ==
  LET h == inflight[s]
      a == authenticateToken(h.token)
  IN /\ At(s, "GET /api/users", "auth")
     /\ Reads
     /\ IF ~a.ok THEN Refuse(s, Unauthorized(a))
        ELSE IF ~requireAdmin(a.user) THEN Refuse(s, Forbidden(a.user))
        ELSE Admit(s, a.user, "select")

\* const users = await getAll('SELECT ... FROM users u ORDER BY ...'), then res.json
ListUsersSelect(s) ==
  /\ At(s, "GET /api/users", "select")
  /\ Reads
  /\ Respond(s, inflight[s], 200, "",
             [users |-> {Principal(users[i]) : i \in 1..Len(users)}, count |-> Len(users)])

\* PUT /api/users/:id arrives: authenticateToken up to its await
StartUpdateProfile(token, id, body) ==
  LET op == "PUT /api/users/:id"
  IN Arrive(op, token, id, body)

\* authenticateToken's SELECT of the user, then the validators and the handler up to its first query:
\* only the user and admins get past
UpdateProfileAuth(s) ==
  LET h == inflight[s]
      a == authenticateToken(h.token)
  IN /\ At(s, "PUT /api/users/:id", "auth")
     /\ Reads
     /\ IF ~a.ok THEN Refuse(s, Unauthorized(a))
        ELSE IF h.id # a.user.id /\ a.user.role # "admin"
        THEN Refuse(s, ReplyT(h.token, 403, "Permission denied", a.user, NoBody))
        ELSE Admit(s, a.user, "getUser")

\* const user = await getOne('SELECT * FROM users WHERE id = ?'), then the SET
\* list up to the email query
UpdateProfileGetUser(s) ==
  LET h == inflight[s]
  IN /\ At(s, "PUT /api/users/:id", "getUser")
     /\ Reads
     /\ IF ~UserExists(h.id) THEN Respond(s, h, 404, "User not found", NoBody)
        ELSE IF h.body.email # NoName THEN Goto(s, "email")
        ELSE IF h.body.fullName = Absent THEN Respond(s, h, 400, "No fields to update", NoBody)
        ELSE Goto(s, "update")

\* const existingEmail = await getOne('SELECT id FROM users WHERE email = ? AND id != ?')
UpdateProfileEmail(s) ==
  LET h == inflight[s]
      existingEmail == \E i \in 1..Len(users) : users[i].email = h.body.email /\ i # h.id
  IN /\ At(s, "PUT /api/users/:id", "email")
     /\ Reads
     /\ IF existingEmail THEN Respond(s, h, 409, "Email already in use", NoBody)
        ELSE Goto(s, "update")

\* await runQuery('UPDATE users SET ... WHERE id = ?'): email is UNIQUE
UpdateProfileUpdate(s) ==
  LET h == inflight[s]
      withName == IF h.body.fullName # Absent
                  THEN [users[h.id] EXCEPT !.full_name = h.body.fullName] ELSE users[h.id]
      withEmail == IF h.body.email # NoName
                   THEN [withName EXCEPT !.email = h.body.email] ELSE withName
      taken == /\ h.body.email # NoName
               /\ \E i \in 1..Len(users) : users[i].email = h.body.email /\ i # h.id
  IN /\ At(s, "PUT /api/users/:id", "update")
     /\ UNCHANGED <<tokens, now, workTables, activity_log_ok>>
     /\ IF taken
        THEN Respond(s, h, 500, "Failed to update user", NoBody) /\ UNCHANGED users
        ELSE /\ users' = [users EXCEPT ![h.id] = withEmail]
             /\ Continue(s, [h EXCEPT !.changes = 1, !.pc = "select"])

\* const updatedUser = await getOne('SELECT id, username, email, full_name, role,
\* is_active FROM users WHERE id = ?')
UpdateProfileSelect(s) ==
  LET h == inflight[s]
  IN /\ At(s, "PUT /api/users/:id", "select")
     /\ Reads
     /\ Continue(s, [h EXCEPT !.row = Principal(users[h.id]), !.pc = "log"])

\* await runQuery('INSERT INTO activity_log ...'), then res.json
UpdateProfileLog(s) ==
  LET h == inflight[s]
  IN /\ At(s, "PUT /api/users/:id", "log")
     /\ Reads
     /\ LogAndReply(s, LogRow(h.user.id, "user_updated", "user", h.id), 200,
                    [user |-> h.row], "Failed to update user")

\* PUT /api/users/:id/role arrives: authenticateToken up to its await
StartChangeRole(token, id, role) ==
  LET op == "PUT /api/users/:id/role"
      body == [role |-> role]
  IN Arrive(op, token, id, body)

\* authenticateToken's SELECT of the user, then requireAdmin and the validators
ChangeRoleAuth(s) ==
  LET h == inflight[s]
      a == authenticateToken(h.token)
  IN /\ At(s, "PUT /api/users/:id/role", "auth")
     /\ Reads
     /\ IF ~a.ok THEN Refuse(s, Unauthorized(a))
        ELSE IF ~requireAdmin(a.user) THEN Refuse(s, Forbidden(a.user))
        ELSE IF h.body.role \notin GlobalRoles
        THEN Refuse(s, ReplyT(h.token, 400, "Invalid role", a.user, NoBody))
        ELSE Admit(s, a.user, "getUser")

\* const user = await getOne('SELECT * FROM users WHERE id = ?')
ChangeRoleGetUser(s) ==
  LET h == inflight[s]
  IN /\ At(s, "PUT /api/users/:id/role", "getUser")
     /\ Reads
     /\ IF ~UserExists(h.id) THEN Respond(s, h, 404, "User not found", NoBody)
        ELSE Continue(s, [h EXCEPT !.row = Principal(users[h.id]),
                                   !.pc = IF users[h.id].role = "admin" /\ h.body.role # "admin"
                                          THEN "count" ELSE "update"])

\* const adminCount = await getOne('SELECT COUNT(*) as count FROM users WHERE
\* role = ? AND is_active = 1')
ChangeRoleCount(s) ==
  /\ At(s, "PUT /api/users/:id/role", "count")
  /\ Reads
  /\ IF adminCount <= 1
     THEN Respond(s, inflight[s], 400, "Cannot remove the last admin", NoBody)
     ELSE Continue(s, [inflight[s] EXCEPT !.count = adminCount, !.pc = "update"])

\* await runQuery('UPDATE users SET role = ? WHERE id = ?')
ChangeRoleUpdate(s) ==
  LET h == inflight[s]
  IN /\ At(s, "PUT /api/users/:id/role", "update")
     /\ users' = SetUser(h.id, "role", h.body.role)
     /\ UNCHANGED <<tokens, now, workTables, activity_log_ok>>
     /\ Continue(s, [h EXCEPT !.changes = 1, !.pc = "log"])

\* await runQuery('INSERT INTO activity_log ...'), then
\* res.json({user: {...user, role}})
ChangeRoleLog(s) ==
  LET h == inflight[s]
  IN /\ At(s, "PUT /api/users/:id/role", "log")
     /\ Reads
     /\ LogAndReply(s, LogRow(h.user.id, "role_changed", "user", h.id), 200,
                    [user |-> [h.row EXCEPT !.role = h.body.role]], "Failed to update role")

\* PUT /api/users/:id/toggle-active arrives: authenticateToken up to its await
StartToggleActive(token, id) ==
  LET op == "PUT /api/users/:id/toggle-active"
  IN Arrive(op, token, id, NoBody)

\* authenticateToken's SELECT of the user, then requireAdmin and the handler up to its first query:
\* userId == req.user.id is answered before any query of the handler
ToggleActiveAuth(s) ==
  LET h == inflight[s]
      a == authenticateToken(h.token)
  IN /\ At(s, "PUT /api/users/:id/toggle-active", "auth")
     /\ Reads
     /\ IF ~a.ok THEN Refuse(s, Unauthorized(a))
        ELSE IF ~requireAdmin(a.user) THEN Refuse(s, Forbidden(a.user))
        ELSE IF h.id = a.user.id
        THEN Refuse(s, ReplyT(h.token, 400, "Cannot deactivate your own account", a.user, NoBody))
        ELSE Admit(s, a.user, "getUser")

\* const user = await getOne('SELECT id, is_active, role FROM users WHERE id = ?')
ToggleActiveGetUser(s) ==
  LET h == inflight[s]
  IN /\ At(s, "PUT /api/users/:id/toggle-active", "getUser")
     /\ Reads
     /\ IF ~UserExists(h.id) THEN Respond(s, h, 404, "User not found", NoBody)
        ELSE Continue(s, [h EXCEPT !.row = Principal(users[h.id]),
                                   !.pc = IF users[h.id].is_active /\ users[h.id].role = "admin"
                                          THEN "count" ELSE "update"])

\* const adminCount = await getOne('SELECT COUNT(*) as count FROM users WHERE
\* role = ? AND is_active = 1')
ToggleActiveCount(s) ==
  /\ At(s, "PUT /api/users/:id/toggle-active", "count")
  /\ Reads
  /\ IF adminCount <= 1
     THEN Respond(s, inflight[s], 400, "Cannot deactivate the last admin", NoBody)
     ELSE Continue(s, [inflight[s] EXCEPT !.count = adminCount, !.pc = "update"])

\* newStatus = !user.is_active; await runQuery('UPDATE users SET is_active = ? ...')
ToggleActiveUpdate(s) ==
  LET h == inflight[s]
  IN /\ At(s, "PUT /api/users/:id/toggle-active", "update")
     /\ users' = SetUser(h.id, "is_active", ~h.row.is_active)
     /\ UNCHANGED <<tokens, now, workTables, activity_log_ok>>
     /\ Continue(s, [h EXCEPT !.changes = 1, !.pc = "log"])

\* await runQuery('INSERT INTO activity_log ...'), then res.json({isActive: newStatus})
ToggleActiveLog(s) ==
  LET h == inflight[s]
  IN /\ At(s, "PUT /api/users/:id/toggle-active", "log")
     /\ Reads
     /\ LogAndReply(s, LogRow(h.user.id, IF ~h.row.is_active THEN "user_activated"
                                         ELSE "user_deactivated", "user", h.id), 200,
                    [isActive |-> ~h.row.is_active], "Failed to toggle user status")

\* POST /api/users/:id/reset-password arrives: authenticateToken up to its await
StartResetPassword(token, id, newPassword) ==
  LET op == "POST /api/users/:id/reset-password"
      body == [newPassword |-> newPassword]
  IN Arrive(op, token, id, body)

\* authenticateToken's SELECT of the user, then requireAdmin and the validators
ResetPasswordAuth(s) ==
  LET h == inflight[s]
      a == authenticateToken(h.token)
  IN /\ At(s, "POST /api/users/:id/reset-password", "auth")
     /\ Reads
     /\ IF ~a.ok THEN Refuse(s, Unauthorized(a))
        ELSE IF ~requireAdmin(a.user) THEN Refuse(s, Forbidden(a.user))
        ELSE Admit(s, a.user, "getUser")

\* const user = await getOne('SELECT id FROM users WHERE id = ?')
ResetPasswordGetUser(s) ==
  /\ At(s, "POST /api/users/:id/reset-password", "getUser")
  /\ Reads
  /\ IF ~UserExists(inflight[s].id)
     THEN Respond(s, inflight[s], 404, "User not found", NoBody)
     ELSE Goto(s, "update")

\* await runQuery('UPDATE users SET password_hash = ? WHERE id = ?')
ResetPasswordUpdate(s) ==
  LET h == inflight[s]
  IN /\ At(s, "POST /api/users/:id/reset-password", "update")
     /\ users' = [users EXCEPT ![h.id].password_hash = bcrypt_hash(h.body.newPassword)]
     /\ UNCHANGED <<tokens, now, workTables, activity_log_ok>>
     /\ Continue(s, [h EXCEPT !.changes = 1, !.pc = "log"])

\* await runQuery('INSERT INTO activity_log ...'), then res.json
ResetPasswordLog(s) ==
  LET h == inflight[s]
  IN /\ At(s, "POST /api/users/:id/reset-password", "log")
     /\ Reads
     /\ LogAndReply(s, LogRow(h.user.id, "password_reset", "user", h.id), 200, NoBody,
                    "Failed to reset password")

\* ------------------------------------------------------------ tables
Put(f, k, v) == [x \in DOMAIN f \cup {k} |-> IF x = k THEN v ELSE f[x]]
Without(f, k) == [x \in DOMAIN f \ {k} |-> f[x]]
\* INTEGER PRIMARY KEY AUTOINCREMENT: one more than the largest id the table
\* ever held, so the id of a deleted row is never given out again
NextId(table) == sqlite_sequence[table] + 1

ProjectExists(pid) == pid \in DOMAIN projects
TaskExists(tid) == tid \in DOMAIN tasks
Member(pid, uid, role) == [project_id |-> pid, user_id |-> uid, role |-> role]
MemberRow(pid, uid) == \E m \in project_members : m.project_id = pid /\ m.user_id = uid
MemberRole(pid, uid) ==
  (CHOOSE m \in project_members : m.project_id = pid /\ m.user_id = uid).role

hasAccess_noViewers(pid, uid) ==
  \/ \E m \in project_members : m.project_id = pid /\ m.user_id = uid /\ m.role # "viewer"
  \/ (ProjectExists(pid) /\ projects[pid].owner_id = uid)

\* SELECT 1 FROM project_members WHERE project_id = ? AND user_id = ?
\* UNION SELECT 1 FROM projects WHERE id = ? AND owner_id = ?
hasAccess(pid, uid) ==
  MemberRow(pid, uid) \/ (ProjectExists(pid) /\ projects[pid].owner_id = uid)

canManage_anyMember(project, pid, uid) == project.owner_id = uid \/ MemberRow(pid, uid)

\* project.owner_id is the current user (the row selected before), or SELECT role
\* FROM project_members WHERE project_id = ? AND user_id = ? gives owner or admin
canManage(project, pid, uid) ==
  \/ project.owner_id = uid
  \/ (MemberRow(pid, uid) /\ MemberRole(pid, uid) \in {"owner", "admin"})

OnDeleteCascade_off(T, field, key) == T

\* FOREIGN KEY (field) REFERENCES parent(id) ON DELETE CASCADE, foreign_keys = ON:
\* the rows of T that refer to the deleted parent row go with it
OnDeleteCascade(T, field, key) ==
  [x \in {k \in DOMAIN T : T[k][field] # key} |-> T[x]]

\* the comments left once the tasks outside T are gone (task_id ON DELETE CASCADE)
CommentsOf(T) == [x \in {k \in DOMAIN comments : comments[k].task_id \in DOMAIN T} |-> comments[x]]

updateFields_all(body, names) == names

\* updateFields: the recognized fields the body carries (updates.x !== undefined)
updateFields(body, names) == {f \in names : body[f] # Absent}

applyUpdates_replace(row, body, names) ==
  [f \in DOMAIN row |-> IF f \in names THEN body[f] ELSE row[f]]

\* UPDATE ... SET f = ? for each collected field WHERE id = ?
applyUpdates(row, body, names) ==
  [f \in DOMAIN row |-> IF f \in updateFields(body, names) THEN body[f] ELSE row[f]]

canRemove_managersOnly(project, pid, uid, memberToRemove) == canManage(project, pid, uid)

\* users can remove themselves, owners and project admins can remove others
canRemove(project, pid, uid, memberToRemove) ==
  memberToRemove = uid \/ canManage(project, pid, uid)

canDeleteProject_managers(pid, user) ==
  canManage(projects[pid], pid, user.id) \/ user.role = "admin"

\* project.owner_id === userId || req.user.role === 'admin'
canDeleteProject(pid, user) == projects[pid].owner_id = user.id \/ user.role = "admin"

\* ------------------------------------------------------------ project routes
listProjects_ownedOnly(uid) == {p \in DOMAIN projects : projects[p].owner_id = uid}

\* FROM projects p LEFT JOIN project_members pm ON p.id = pm.project_id AND pm.user_id = ?
\* WHERE (p.owner_id = ? OR pm.user_id = ?), DISTINCT
listProjects(uid) ==
  LET pmOf(p) == IF MemberRow(p, uid) THEN uid ELSE NULL
      joined == {[p |-> p, pm_user_id |-> pmOf(p)] : p \in DOMAIN projects}
      selected == {r \in joined : projects[r.p].owner_id = uid \/ r.pm_user_id = uid}
  IN {r.p : r \in selected}

\* GET /api/projects arrives: authenticateToken up to its await
StartListProjects(token) ==
  LET op == "GET /api/projects"
  IN Arrive(op, token, 0, NoBody)

\* authenticateToken's SELECT of the user, then next()
ListProjectsAuth(s) ==
  LET h == inflight[s]
      a == authenticateToken(h.token)
  IN /\ At(s, "GET /api/projects", "auth")
     /\ Reads
     /\ IF ~a.ok THEN Refuse(s, Unauthorized(a))
        ELSE Admit(s, a.user, "select")

\* const projects = await getAll(query, params), then res.json
ListProjectsSelect(s) ==
  /\ At(s, "GET /api/projects", "select")
  /\ Reads
  /\ Respond(s, inflight[s], 200, "", [projects |-> listProjects(inflight[s].user.id)])

\* POST /api/projects arrives: authenticateToken up to its await
StartCreateProject(token) ==
  LET op == "POST /api/projects"
  IN /\ sqlite_sequence.projects + Pending(op, {"auth", "insert"}) < MaxProjects
     /\ Arrive(op, token, 0, NoBody)

\* authenticateToken's SELECT of the user, then the validators
CreateProjectAuth(s) ==
  LET h == inflight[s]
      a == authenticateToken(h.token)
  IN /\ At(s, "POST /api/projects", "auth")
     /\ Reads
     /\ IF ~a.ok THEN Refuse(s, Unauthorized(a))
        ELSE Admit(s, a.user, "insert")

\* const result = await runQuery('INSERT INTO projects (name, description, owner_id, color) ...')
CreateProjectInsert(s) ==
  LET h == inflight[s]
      id == NextId("projects")
  IN /\ At(s, "POST /api/projects", "insert")
     /\ projects' = Put(projects, id, [owner_id |-> h.user.id, name |-> "p1",
                                       status |-> "active"])
     /\ sqlite_sequence' = [sqlite_sequence EXCEPT !.projects = id]
     /\ UNCHANGED <<users, tokens, now, project_members, tasks, comments, activity_log_ok>>
     /\ Continue(s, [h EXCEPT !.id = id, !.changes = 1, !.pc = "member"])

\* await runQuery("INSERT INTO project_members (project_id, user_id, role) VALUES
\* (?, ?, 'owner')"): PRIMARY KEY (project_id, user_id), FOREIGN KEY (project_id)
CreateProjectMember(s) ==
  LET h == inflight[s]
  IN /\ At(s, "POST /api/projects", "member")
     /\ UNCHANGED <<users, tokens, now, projects, tasks, comments, sqlite_sequence,
                    activity_log_ok>>
     /\ IF ~ProjectExists(h.id) \/ MemberRow(h.id, h.user.id)
        THEN Respond(s, h, 500, "Failed to create project", NoBody)
             /\ UNCHANGED project_members
        ELSE /\ project_members' = project_members \cup {Member(h.id, h.user.id, "owner")}
             /\ Goto(s, "select")

\* const project = await getOne('SELECT * FROM projects WHERE id = ?'): undefined
\* when the row is gone
CreateProjectSelect(s) ==
  LET h == inflight[s]
  IN /\ At(s, "POST /api/projects", "select")
     /\ Reads
     /\ Continue(s, [h EXCEPT !.row = IF ProjectExists(h.id) THEN projects[h.id] ELSE NoRow,
                              !.pc = "log"])

\* await runQuery('INSERT INTO activity_log ...'), then res.status(201).json
CreateProjectLog(s) ==
  LET h == inflight[s]
  IN /\ At(s, "POST /api/projects", "log")
     /\ Reads
     /\ LogAndReply(s, LogRow(h.user.id, "project_created", "project", h.id), 201,
                    [project |-> h.row], "Failed to create project")

existingMember_ownerOnly(pid, uid) == ProjectExists(pid) /\ projects[pid].owner_id = uid

\* SELECT * FROM project_members WHERE project_id = ? AND user_id = ?
existingMember(pid, uid) == MemberRow(pid, uid)

\* POST /api/projects/:id/members arrives: authenticateToken up to its await
StartAddMember(token, pid, newMemberId, role) ==
  LET op == "POST /api/projects/:id/members"
      body == [userId |-> newMemberId, role |-> role]
  IN Arrive(op, token, pid, body)

\* authenticateToken's SELECT of the user, then the validators
AddMemberAuth(s) ==
  LET h == inflight[s]
      a == authenticateToken(h.token)
  IN /\ At(s, "POST /api/projects/:id/members", "auth")
     /\ Reads
     /\ IF ~a.ok THEN Refuse(s, Unauthorized(a))
        ELSE IF h.body.role \notin AddableRoles
        THEN Refuse(s, ReplyT(h.token, 400, "Invalid role", a.user, NoBody))
        ELSE Admit(s, a.user, "getProject")

\* const project = await getOne('SELECT * FROM projects WHERE id = ?')
AddMemberGetProject(s) ==
  LET h == inflight[s]
  IN /\ At(s, "POST /api/projects/:id/members", "getProject")
     /\ Reads
     /\ IF ~ProjectExists(h.id) THEN Respond(s, h, 404, "Project not found", NoBody)
        ELSE Continue(s, [h EXCEPT !.row = projects[h.id], !.pc = "role"])

\* const currentUserRole = await getOne('SELECT role FROM project_members WHERE ...')
AddMemberRole(s) ==
  LET h == inflight[s]
  IN /\ At(s, "POST /api/projects/:id/members", "role")
     /\ Reads
     /\ IF ~canManage(h.row, h.id, h.user.id)
        THEN Respond(s, h, 403, "Permission denied", NoBody)
        ELSE Goto(s, "getUser")

\* const newMember = await getOne('SELECT id, username, full_name FROM users WHERE id = ?')
AddMemberGetUser(s) ==
  LET h == inflight[s]
  IN /\ At(s, "POST /api/projects/:id/members", "getUser")
     /\ Reads
     /\ IF ~UserExists(h.body.userId) THEN Respond(s, h, 404, "User not found", NoBody)
        ELSE Goto(s, "existing")

\* const existingMember = await getOne('SELECT * FROM project_members WHERE ...')
AddMemberExisting(s) ==
  LET h == inflight[s]
  IN /\ At(s, "POST /api/projects/:id/members", "existing")
     /\ Reads
     /\ IF existingMember(h.id, h.body.userId)
        THEN Respond(s, h, 409, "User is already a member of this project", NoBody)
        ELSE Goto(s, "insert")

\* await runQuery('INSERT INTO project_members (project_id, user_id, role) VALUES
\* (?, ?, ?)'): PRIMARY KEY (project_id, user_id), FOREIGN KEY (project_id)
AddMemberInsert(s) ==
  LET h == inflight[s]
  IN /\ At(s, "POST /api/projects/:id/members", "insert")
     /\ UNCHANGED <<users, tokens, now, projects, tasks, comments, sqlite_sequence,
                    activity_log_ok>>
     /\ IF ~ProjectExists(h.id) \/ MemberRow(h.id, h.body.userId)
        THEN Respond(s, h, 500, "Failed to add member", NoBody) /\ UNCHANGED project_members
        ELSE /\ project_members' =
                  project_members \cup {Member(h.id, h.body.userId, h.body.role)}
             /\ Continue(s, [h EXCEPT !.changes = 1, !.pc = "log"])

\* await runQuery('INSERT INTO activity_log ...'), then res.status(201).json
AddMemberLog(s) ==
  LET h == inflight[s]
  IN /\ At(s, "POST /api/projects/:id/members", "log")
     /\ Reads
     /\ LogAndReply(s, LogRow(h.user.id, "member_added", "project", h.id), 201,
                    [member |-> h.body.userId, role |-> h.body.role], "Failed to add member")

\* DELETE /api/projects/:id/members/:userId arrives: authenticateToken up to its await
StartRemoveMember(token, pid, memberToRemove) ==
  LET op == "DELETE /api/projects/:id/members/:userId"
      body == [userId |-> memberToRemove]
  IN Arrive(op, token, pid, body)

\* authenticateToken's SELECT of the user, then next()
RemoveMemberAuth(s) ==
  LET h == inflight[s]
      a == authenticateToken(h.token)
  IN /\ At(s, "DELETE /api/projects/:id/members/:userId", "auth")
     /\ Reads
     /\ IF ~a.ok THEN Refuse(s, Unauthorized(a))
        ELSE Admit(s, a.user, "getProject")

\* const project = await getOne('SELECT * FROM projects WHERE id = ?'), then
\* memberToRemove === project.owner_id
RemoveMemberGetProject(s) ==
  LET h == inflight[s]
  IN /\ At(s, "DELETE /api/projects/:id/members/:userId", "getProject")
     /\ Reads
     /\ IF ~ProjectExists(h.id) THEN Respond(s, h, 404, "Project not found", NoBody)
        ELSE IF h.body.userId = projects[h.id].owner_id
        THEN Respond(s, h, 400, "Cannot remove project owner", NoBody)
        ELSE Continue(s, [h EXCEPT !.row = projects[h.id], !.pc = "role"])

\* const currentUserRole = await getOne('SELECT role FROM project_members WHERE ...')
RemoveMemberRole(s) ==
  LET h == inflight[s]
  IN /\ At(s, "DELETE /api/projects/:id/members/:userId", "role")
     /\ Reads
     /\ IF ~canRemove(h.row, h.id, h.user.id, h.body.userId)
        THEN Respond(s, h, 403, "Permission denied", NoBody)
        ELSE Goto(s, "delete")

\* const result = await runQuery('DELETE FROM project_members WHERE project_id = ?
\* AND user_id = ?'), then result.changes === 0
RemoveMemberDelete(s) ==
  LET h == inflight[s]
  IN /\ At(s, "DELETE /api/projects/:id/members/:userId", "delete")
     /\ UNCHANGED <<users, tokens, now, projects, tasks, comments, sqlite_sequence,
                    activity_log_ok>>
     /\ IF ~MemberRow(h.id, h.body.userId)
        THEN Respond(s, h, 404, "Member not found in project", NoBody)
             /\ UNCHANGED project_members
        ELSE /\ project_members' = {m \in project_members :
                                      ~(m.project_id = h.id /\ m.user_id = h.body.userId)}
             /\ Continue(s, [h EXCEPT !.changes = 1, !.pc = "log"])

\* await runQuery('INSERT INTO activity_log ...'), then res.json
RemoveMemberLog(s) ==
  LET h == inflight[s]
  IN /\ At(s, "DELETE /api/projects/:id/members/:userId", "log")
     /\ Reads
     /\ LogAndReply(s, LogRow(h.user.id, "member_removed", "project", h.id), 200, NoBody,
                    "Failed to remove member")

\* PUT /api/projects/:id arrives: authenticateToken up to its await
StartUpdateProject(token, pid, body) ==
  LET op == "PUT /api/projects/:id"
  IN Arrive(op, token, pid, body)

\* authenticateToken's SELECT of the user, then the validators
UpdateProjectAuth(s) ==
  LET h == inflight[s]
      a == authenticateToken(h.token)
  IN /\ At(s, "PUT /api/projects/:id", "auth")
     /\ Reads
     /\ IF ~a.ok THEN Refuse(s, Unauthorized(a))
        ELSE IF h.body.status # Absent /\ h.body.status \notin ProjectStatuses
        THEN Refuse(s, ReplyT(h.token, 400, "Invalid status", a.user, NoBody))
        ELSE Admit(s, a.user, "getProject")

\* const project = await getOne('SELECT * FROM projects WHERE id = ?')
UpdateProjectGetProject(s) ==
  LET h == inflight[s]
  IN /\ At(s, "PUT /api/projects/:id", "getProject")
     /\ Reads
     /\ IF ~ProjectExists(h.id) THEN Respond(s, h, 404, "Project not found", NoBody)
        ELSE Continue(s, [h EXCEPT !.row = projects[h.id], !.pc = "role"])

\* const memberRole = await getOne('SELECT role FROM project_members WHERE ...'),
\* then the SET list
UpdateProjectRole(s) ==
  LET h == inflight[s]
  IN /\ At(s, "PUT /api/projects/:id", "role")
     /\ Reads
     /\ IF ~canManage(h.row, h.id, h.user.id)
        THEN Respond(s, h, 403, "Permission denied", NoBody)
        ELSE IF updateFields(h.body, ProjectFields) = {}
        THEN Respond(s, h, 400, "No fields to update", NoBody)
        ELSE Goto(s, "update")

\* await runQuery('UPDATE projects SET ... WHERE id = ?'): no row, no error
UpdateProjectUpdate(s) ==
  LET h == inflight[s]
  IN /\ At(s, "PUT /api/projects/:id", "update")
     /\ UNCHANGED <<users, tokens, now, project_members, tasks, comments, sqlite_sequence,
                    activity_log_ok>>
     /\ projects' = IF ProjectExists(h.id)
                    THEN [projects EXCEPT ![h.id] = applyUpdates(@, h.body, ProjectFields)]
                    ELSE projects
     /\ Continue(s, [h EXCEPT !.changes = IF ProjectExists(h.id) THEN 1 ELSE 0,
                              !.pc = "select"])

\* const updatedProject = await getOne('SELECT * FROM projects WHERE id = ?')
UpdateProjectSelect(s) ==
  LET h == inflight[s]
  IN /\ At(s, "PUT /api/projects/:id", "select")
     /\ Reads
     /\ Continue(s, [h EXCEPT !.row = IF ProjectExists(h.id) THEN projects[h.id] ELSE NoRow,
                              !.pc = "log"])

\* await runQuery('INSERT INTO activity_log ...'), then res.json
UpdateProjectLog(s) ==
  LET h == inflight[s]
  IN /\ At(s, "PUT /api/projects/:id", "log")
     /\ Reads
     /\ LogAndReply(s, LogRow(h.user.id, "project_updated", "project", h.id), 200,
                    [project |-> h.row], "Failed to update project")

\* DELETE /api/projects/:id arrives: authenticateToken up to its await
StartDeleteProject(token, pid) ==
  LET op == "DELETE /api/projects/:id"
  IN Arrive(op, token, pid, NoBody)

\* authenticateToken's SELECT of the user, then next()
DeleteProjectAuth(s) ==
  LET h == inflight[s]
      a == authenticateToken(h.token)
  IN /\ At(s, "DELETE /api/projects/:id", "auth")
     /\ Reads
     /\ IF ~a.ok THEN Refuse(s, Unauthorized(a))
        ELSE Admit(s, a.user, "getProject")

\* const project = await getOne('SELECT * FROM projects WHERE id = ?'), then the
\* owner check
DeleteProjectGetProject(s) ==
  LET h == inflight[s]
  IN /\ At(s, "DELETE /api/projects/:id", "getProject")
     /\ Reads
     /\ IF ~ProjectExists(h.id) THEN Respond(s, h, 404, "Project not found", NoBody)
        ELSE IF ~canDeleteProject(h.id, h.user)
        THEN Respond(s, h, 403, "Only project owner can delete project", NoBody)
        ELSE Continue(s, [h EXCEPT !.row = projects[h.id], !.pc = "log"])

\* await runQuery('INSERT INTO activity_log ...') before the DELETE
DeleteProjectLog(s) ==
  LET h == inflight[s]
      row == LogRow(h.user.id, "project_deleted", "project", h.id)
  IN /\ At(s, "DELETE /api/projects/:id", "log")
     /\ Reads
     /\ IF activity_log_ok
        THEN Continue(s, [h EXCEPT !.rows = Append(@, row), !.pc = "delete"])
        ELSE Respond(s, h, 500, "Failed to delete project", NoBody)

\* await runQuery('DELETE FROM projects WHERE id = ?'), then res.json: tasks,
\* project_members and comments go by ON DELETE CASCADE
DeleteProjectDelete(s) ==
  LET h == inflight[s]
      remaining == OnDeleteCascade(tasks, "project_id", h.id)
  IN /\ At(s, "DELETE /api/projects/:id", "delete")
     /\ UNCHANGED <<users, tokens, now, sqlite_sequence, activity_log_ok>>
     /\ projects' = IF ProjectExists(h.id) THEN Without(projects, h.id) ELSE projects
     /\ tasks' = remaining
     /\ project_members' = {m \in project_members :
                              m \in DOMAIN OnDeleteCascade(
                                [k \in project_members |-> k], "project_id", h.id)}
     /\ comments' = CommentsOf(remaining)
     /\ Respond(s, [h EXCEPT !.changes = IF ProjectExists(h.id) THEN 1 ELSE 0], 200, "", NoBody)

\* ------------------------------------------------------------ task routes
listTasks_ownedOnly(uid) ==
  {t \in DOMAIN tasks : \E q \in DOMAIN projects :
                           q = tasks[t].project_id /\ projects[q].owner_id = uid}

\* FROM tasks t JOIN projects p ON t.project_id = p.id WHERE EXISTS (
\*   SELECT 1 FROM project_members WHERE project_id = p.id AND user_id = ?
\*   UNION SELECT 1 FROM projects WHERE id = p.id AND owner_id = ?)
listTasks(uid) ==
  LET joined == {[t |-> t, p |-> p] : t \in DOMAIN tasks, p \in DOMAIN projects}
      onKey == {r \in joined : tasks[r.t].project_id = r.p}
      members(p) == {1 : m \in {k \in project_members : k.project_id = p /\ k.user_id = uid}}
      owned(p) == {1 : q \in {k \in DOMAIN projects : k = p /\ projects[k].owner_id = uid}}
  IN {r.t : r \in {x \in onKey : members(x.p) \cup owned(x.p) # {}}}

\* GET /api/tasks arrives: authenticateToken up to its await
StartListTasks(token) ==
  LET op == "GET /api/tasks"
  IN Arrive(op, token, 0, NoBody)

\* authenticateToken's SELECT of the user, then the validators
ListTasksAuth(s) ==
  LET h == inflight[s]
      a == authenticateToken(h.token)
  IN /\ At(s, "GET /api/tasks", "auth")
     /\ Reads
     /\ IF ~a.ok THEN Refuse(s, Unauthorized(a))
        ELSE Admit(s, a.user, "select")

\* const tasks = await getAll(query, params), then res.json
ListTasksSelect(s) ==
  /\ At(s, "GET /api/tasks", "select")
  /\ Reads
  /\ Respond(s, inflight[s], 200, "", [tasks |-> listTasks(inflight[s].user.id)])

\* a path segment after /api/tasks: a word such as 'my-tasks', or a number
Word(w) == [lit |-> w, num |-> 0]
Number(n) == [lit |-> "", num |-> n]

\* the routes of the task router, in the order router.get/post/put/delete register them
taskRoutes ==
  <<[method |-> "GET", path |-> "/"], [method |-> "GET", path |-> "/:id"],
    [method |-> "POST", path |-> "/"], [method |-> "PUT", path |-> "/:id"],
    [method |-> "DELETE", path |-> "/:id"], [method |-> "POST", path |-> "/:id/comments"],
    [method |-> "GET", path |-> "/my-tasks"]>>

\* Express path matching: ':id' takes any one segment, a word takes itself only
Matches(route, method, segments) ==
  /\ route.method = method
  /\ IF route.path = "/" THEN segments = <<>>
     ELSE IF route.path = "/:id" THEN Len(segments) = 1
     ELSE IF route.path = "/:id/comments"
       THEN Len(segments) = 2 /\ segments[2] = Word("comments")
     ELSE Len(segments) = 1 /\ segments[1] = Word("my-tasks")

\* the router runs the first registered route that matches; its handler
\* answers without calling next(), so no later route sees the request
dispatch(method, segments) ==
  LET matching == {i \in 1..Len(taskRoutes) : Matches(taskRoutes[i], method, segments)}
  IN taskRoutes[CHOOSE i \in matching : \A j \in matching : i <= j].path

\* WHERE t.id = ? with req.params.id: a word equals no INTEGER PRIMARY KEY
paramId(segment) == IF segment.lit = "" THEN segment.num ELSE 0

\* WHERE t.assigned_to = ? AND t.status != 'done' AND t.status != 'cancelled'
myTasks(uid) ==
  {t \in DOMAIN tasks : tasks[t].assigned_to = uid /\ tasks[t].status \notin {"done", "cancelled"}}

\* GET /api/tasks/:id arrives: authenticateToken up to its await
StartGetTask(token, tid) ==
  LET op == "GET /api/tasks/:id"
  IN Arrive(op, token, tid, NoBody)

\* authenticateToken's SELECT of the user, then next()
GetTaskAuth(s) ==
  LET h == inflight[s]
      a == authenticateToken(h.token)
  IN /\ At(s, "GET /api/tasks/:id", "auth")
     /\ Reads
     /\ IF ~a.ok THEN Refuse(s, Unauthorized(a))
        ELSE Admit(s, a.user, "getTask")

\* GET /api/tasks/my-tasks arrives: authenticateToken up to its await;
\* req.params is set by the route the router dispatches the request to
StartGetMyTasks(token) ==
  LET op == "GET /api/tasks/my-tasks"
      segments == <<Word("my-tasks")>>
  IN Arrive(op, token,
            IF dispatch("GET", segments) = "/:id" THEN paramId(segments[1]) ELSE 0, NoBody)

\* authenticateToken's SELECT of the user, then the handler of the route the
\* router dispatched to; router.get('/:id') never looks at validationResult
GetMyTasksAuth(s) ==
  LET h == inflight[s]
      a == authenticateToken(h.token)
      segments == <<Word("my-tasks")>>
  IN /\ At(s, "GET /api/tasks/my-tasks", "auth")
     /\ Reads
     /\ IF ~a.ok THEN Refuse(s, Unauthorized(a))
        ELSE IF dispatch("GET", segments) = "/:id" THEN Admit(s, a.user, "getTask")
        ELSE Refuse(s, ReplyT(h.token, 200, "", a.user,
                              [tasks |-> myTasks(a.user.id),
                               count |-> Cardinality(myTasks(a.user.id))]))

\* the requests router.get('/:id') handles
getTaskRequests == {"GET /api/tasks/:id", "GET /api/tasks/my-tasks"}
AtGetTask(s, pc) ==
  s \in DOMAIN inflight /\ inflight[s].op \in getTaskRequests /\ inflight[s].pc = pc

\* const task = await getOne('SELECT t.*, ... FROM tasks t JOIN projects p ... WHERE t.id = ?')
GetTaskSelect(s) ==
  LET h == inflight[s]
  IN /\ AtGetTask(s, "getTask")
     /\ Reads
     /\ IF ~TaskExists(h.id) THEN Respond(s, h, 404, "Task not found", NoBody)
        ELSE Continue(s, [h EXCEPT !.row = tasks[h.id], !.pc = "access"])

\* const hasAccess = await getOne(...)
GetTaskAccess(s) ==
  LET h == inflight[s]
  IN /\ AtGetTask(s, "access")
     /\ Reads
     /\ IF ~hasAccess(h.row.project_id, h.user.id)
        THEN Respond(s, h, 403, "Access denied", NoBody)
        ELSE Goto(s, "comments")

\* const comments = await getAll(...), then res.json({ task, comments })
GetTaskComments(s) ==
  LET h == inflight[s]
  IN /\ AtGetTask(s, "comments")
     /\ Reads
     /\ Respond(s, h, 200, "", [task |-> h.row])

\* POST /api/tasks arrives: authenticateToken up to its await
StartCreateTask(token, body) ==
  LET op == "POST /api/tasks"
  IN /\ sqlite_sequence.tasks + Pending(op, {"auth", "access", "member", "insert"}) < MaxTasks
     /\ Arrive(op, token, 0, body)

\* authenticateToken's SELECT of the user, then the validators
CreateTaskAuth(s) ==
  LET h == inflight[s]
      a == authenticateToken(h.token)
  IN /\ At(s, "POST /api/tasks", "auth")
     /\ Reads
     /\ IF ~a.ok THEN Refuse(s, Unauthorized(a))
        ELSE IF (IF h.body.status = Absent THEN "todo" ELSE h.body.status) \notin TaskStatuses
        THEN Refuse(s, ReplyT(h.token, 400, "Invalid value", a.user, NoBody))
        ELSE Admit(s, a.user, "access")

\* const hasAccess = await getOne(...), then if (assignedTo)
CreateTaskAccess(s) ==
  LET h == inflight[s]
  IN /\ At(s, "POST /api/tasks", "access")
     /\ Reads
     /\ IF ~hasAccess(h.body.projectId, h.user.id)
        THEN Respond(s, h, 403, "No access to this project", NoBody)
        ELSE IF h.body.assignedTo # AbsentId THEN Goto(s, "member")
        ELSE Goto(s, "insert")

\* const isMember = await getOne(...)
CreateTaskMember(s) ==
  LET h == inflight[s]
  IN /\ At(s, "POST /api/tasks", "member")
     /\ Reads
     /\ IF ~hasAccess(h.body.projectId, h.body.assignedTo)
        THEN Respond(s, h, 400, "Assigned user is not a project member", NoBody)
        ELSE Goto(s, "insert")

\* const result = await runQuery('INSERT INTO tasks (...) VALUES (...)'):
\* FOREIGN KEY (project_id) REFERENCES projects(id)
CreateTaskInsert(s) ==
  LET h == inflight[s]
      id == NextId("tasks")
      task == [project_id |-> h.body.projectId,
               assigned_to |-> IF h.body.assignedTo # AbsentId THEN h.body.assignedTo
                               ELSE NULL,
               created_by |-> h.user.id,
               status |-> IF h.body.status = Absent THEN "todo" ELSE h.body.status,
               completed_at |-> NULL]
  IN /\ At(s, "POST /api/tasks", "insert")
     /\ UNCHANGED <<users, tokens, now, projects, project_members, comments, activity_log_ok>>
     /\ IF ~ProjectExists(h.body.projectId)
        THEN Respond(s, h, 500, "Failed to create task", NoBody)
             /\ UNCHANGED <<tasks, sqlite_sequence>>
        ELSE /\ tasks' = Put(tasks, id, task)
             /\ sqlite_sequence' = [sqlite_sequence EXCEPT !.tasks = id]
             /\ Continue(s, [h EXCEPT !.id = id, !.changes = 1, !.pc = "select"])

\* const task = await getOne('SELECT t.*, ... WHERE t.id = ?'): undefined when
\* the row is gone
CreateTaskSelect(s) ==
  LET h == inflight[s]
  IN /\ At(s, "POST /api/tasks", "select")
     /\ Reads
     /\ Continue(s, [h EXCEPT !.row = IF TaskExists(h.id) THEN tasks[h.id] ELSE NoRow,
                              !.pc = "log"])

\* await runQuery('INSERT INTO activity_log ...'), then res.status(201).json
CreateTaskLog(s) ==
  LET h == inflight[s]
  IN /\ At(s, "POST /api/tasks", "log")
     /\ Reads
     /\ LogAndReply(s, LogRow(h.user.id, "task_created", "task", h.id), 201,
                    [task |-> h.row], "Failed to create task")

completedAt_keepOnReopen(status, old) ==
  IF status = Absent THEN old ELSE IF status = "done" THEN now ELSE old

\* completed_at = CURRENT_TIMESTAMP when status is done, NULL for another status
completedAt(status, old) ==
  IF status = Absent THEN old ELSE IF status = "done" THEN now ELSE NULL

\* PUT /api/tasks/:id arrives: authenticateToken up to its await
StartUpdateTask(token, tid, body) ==
  LET op == "PUT /api/tasks/:id"
  IN Arrive(op, token, tid, body)

\* authenticateToken's SELECT of the user, then the validators
UpdateTaskAuth(s) ==
  LET h == inflight[s]
      a == authenticateToken(h.token)
  IN /\ At(s, "PUT /api/tasks/:id", "auth")
     /\ Reads
     /\ IF ~a.ok THEN Refuse(s, Unauthorized(a))
        ELSE IF h.body.status # Absent /\ h.body.status \notin TaskStatuses
        THEN Refuse(s, ReplyT(h.token, 400, "Invalid value", a.user, NoBody))
        ELSE Admit(s, a.user, "getTask")

\* const task = await getOne('SELECT * FROM tasks WHERE id = ?')
UpdateTaskGetTask(s) ==
  LET h == inflight[s]
  IN /\ At(s, "PUT /api/tasks/:id", "getTask")
     /\ Reads
     /\ IF ~TaskExists(h.id) THEN Respond(s, h, 404, "Task not found", NoBody)
        ELSE Continue(s, [h EXCEPT !.row = tasks[h.id], !.pc = "access"])

\* const hasAccess = await getOne(...), then the SET list
UpdateTaskAccess(s) ==
  LET h == inflight[s]
  IN /\ At(s, "PUT /api/tasks/:id", "access")
     /\ Reads
     /\ IF ~hasAccess(h.row.project_id, h.user.id)
        THEN Respond(s, h, 403, "No access to this task", NoBody)
        ELSE IF h.body.assignedTo = AbsentId /\ h.body.status = Absent
        THEN Respond(s, h, 400, "No fields to update", NoBody)
        ELSE Goto(s, "update")

\* await runQuery('UPDATE tasks SET ... WHERE id = ?'): no row, no error;
\* FOREIGN KEY (assigned_to) REFERENCES users(id)
UpdateTaskUpdate(s) ==
  LET h == inflight[s]
      present == TaskExists(h.id)
      updated == [tasks[h.id] EXCEPT
                    !.assigned_to = IF h.body.assignedTo # AbsentId THEN h.body.assignedTo
                                    ELSE @,
                    !.status = IF h.body.status # Absent THEN h.body.status ELSE @,
                    !.completed_at = completedAt(h.body.status, @)]
  IN /\ At(s, "PUT /api/tasks/:id", "update")
     /\ UNCHANGED <<users, tokens, now, projects, project_members, comments, sqlite_sequence,
                    activity_log_ok>>
     /\ IF present /\ h.body.assignedTo # AbsentId /\ ~UserExists(h.body.assignedTo)
        THEN Respond(s, h, 500, "Failed to update task", NoBody) /\ UNCHANGED tasks
        ELSE /\ tasks' = IF present THEN [tasks EXCEPT ![h.id] = updated] ELSE tasks
             /\ Continue(s, [h EXCEPT !.changes = IF present THEN 1 ELSE 0,
                                      !.pc = "select"])

\* const updatedTask = await getOne(...): undefined when the row is gone
UpdateTaskSelect(s) ==
  LET h == inflight[s]
  IN /\ At(s, "PUT /api/tasks/:id", "select")
     /\ Reads
     /\ Continue(s, [h EXCEPT !.row = IF TaskExists(h.id) THEN tasks[h.id] ELSE NoRow,
                              !.pc = "log"])

\* await runQuery('INSERT INTO activity_log ...'), then res.json
UpdateTaskLog(s) ==
  LET h == inflight[s]
  IN /\ At(s, "PUT /api/tasks/:id", "log")
     /\ Reads
     /\ LogAndReply(s, LogRow(h.user.id, "task_updated", "task", h.id), 200,
                    [task |-> h.row], "Failed to update task")

hasPermission_anyMember(tid, project_id, uid) == hasAccess(project_id, uid)

\* SELECT 1 FROM tasks WHERE id = ? AND (created_by = ? OR assigned_to = ?)
\* UNION SELECT 1 FROM project_members WHERE ... AND role IN ('owner', 'admin')
\* UNION SELECT 1 FROM projects WHERE id = ? AND owner_id = ?
hasPermission(tid, project_id, uid) ==
  \/ (TaskExists(tid) /\ (tasks[tid].created_by = uid \/ tasks[tid].assigned_to = uid))
  \/ \E m \in project_members : /\ m.project_id = project_id /\ m.user_id = uid
                                 /\ m.role \in {"owner", "admin"}
  \/ (ProjectExists(project_id) /\ projects[project_id].owner_id = uid)

\* DELETE /api/tasks/:id arrives: authenticateToken up to its await
StartDeleteTask(token, tid) ==
  LET op == "DELETE /api/tasks/:id"
  IN Arrive(op, token, tid, NoBody)

\* authenticateToken's SELECT of the user, then next()
DeleteTaskAuth(s) ==
  LET h == inflight[s]
      a == authenticateToken(h.token)
  IN /\ At(s, "DELETE /api/tasks/:id", "auth")
     /\ Reads
     /\ IF ~a.ok THEN Refuse(s, Unauthorized(a))
        ELSE Admit(s, a.user, "getTask")

\* const task = await getOne('SELECT * FROM tasks WHERE id = ?')
DeleteTaskGetTask(s) ==
  LET h == inflight[s]
  IN /\ At(s, "DELETE /api/tasks/:id", "getTask")
     /\ Reads
     /\ IF ~TaskExists(h.id) THEN Respond(s, h, 404, "Task not found", NoBody)
        ELSE Continue(s, [h EXCEPT !.row = tasks[h.id], !.pc = "permission"])

\* const hasPermission = await getOne(...)
DeleteTaskPermission(s) ==
  LET h == inflight[s]
  IN /\ At(s, "DELETE /api/tasks/:id", "permission")
     /\ Reads
     /\ IF ~hasPermission(h.id, h.row.project_id, h.user.id)
        THEN Respond(s, h, 403, "Permission denied", NoBody)
        ELSE Goto(s, "log")

\* await runQuery('INSERT INTO activity_log ...') before the DELETE
DeleteTaskLog(s) ==
  LET h == inflight[s]
      row == LogRow(h.user.id, "task_deleted", "task", h.id)
  IN /\ At(s, "DELETE /api/tasks/:id", "log")
     /\ Reads
     /\ IF activity_log_ok
        THEN Continue(s, [h EXCEPT !.rows = Append(@, row), !.pc = "delete"])
        ELSE Respond(s, h, 500, "Failed to delete task", NoBody)

\* await runQuery('DELETE FROM tasks WHERE id = ?'), then res.json
DeleteTaskDelete(s) ==
  LET h == inflight[s]
      present == TaskExists(h.id)
  IN /\ At(s, "DELETE /api/tasks/:id", "delete")
     /\ UNCHANGED <<users, tokens, now, projects, project_members, sqlite_sequence,
                    activity_log_ok>>
     /\ tasks' = IF present THEN Without(tasks, h.id) ELSE tasks
     /\ comments' = OnDeleteCascade(comments, "task_id", h.id)
     /\ Respond(s, [h EXCEPT !.changes = IF present THEN 1 ELSE 0], 200, "", NoBody)

\* POST /api/tasks/:id/comments arrives: authenticateToken up to its await
StartAddComment(token, tid) ==
  LET op == "POST /api/tasks/:id/comments"
  IN /\ sqlite_sequence.comments + Pending(op, {"auth", "getTask", "access", "insert"}) < MaxComments
     /\ Arrive(op, token, tid, NoBody)

\* authenticateToken's SELECT of the user, then the validators
AddCommentAuth(s) ==
  LET h == inflight[s]
      a == authenticateToken(h.token)
  IN /\ At(s, "POST /api/tasks/:id/comments", "auth")
     /\ Reads
     /\ IF ~a.ok THEN Refuse(s, Unauthorized(a))
        ELSE Admit(s, a.user, "getTask")

\* const task = await getOne('SELECT project_id FROM tasks WHERE id = ?')
AddCommentGetTask(s) ==
  LET h == inflight[s]
  IN /\ At(s, "POST /api/tasks/:id/comments", "getTask")
     /\ Reads
     /\ IF ~TaskExists(h.id) THEN Respond(s, h, 404, "Task not found", NoBody)
        ELSE Continue(s, [h EXCEPT !.row = tasks[h.id], !.pc = "access"])

\* const hasAccess = await getOne(...)
AddCommentAccess(s) ==
  LET h == inflight[s]
  IN /\ At(s, "POST /api/tasks/:id/comments", "access")
     /\ Reads
     /\ IF ~hasAccess(h.row.project_id, h.user.id)
        THEN Respond(s, h, 403, "No access to this task", NoBody)
        ELSE Goto(s, "insert")

\* const result = await runQuery('INSERT INTO comments (task_id, user_id, content) ...'):
\* FOREIGN KEY (task_id) REFERENCES tasks(id)
AddCommentInsert(s) ==
  LET h == inflight[s]
      id == NextId("comments")
  IN /\ At(s, "POST /api/tasks/:id/comments", "insert")
     /\ UNCHANGED <<users, tokens, now, projects, project_members, tasks, activity_log_ok>>
     /\ IF ~TaskExists(h.id)
        THEN Respond(s, h, 500, "Failed to add comment", NoBody)
             /\ UNCHANGED <<comments, sqlite_sequence>>
        ELSE /\ comments' = Put(comments, id, [task_id |-> h.id, user_id |-> h.user.id])
             /\ sqlite_sequence' = [sqlite_sequence EXCEPT !.comments = id]
             /\ Continue(s, [h EXCEPT !.count = id, !.changes = 1, !.pc = "select"])

\* const comment = await getOne('SELECT c.*, ... WHERE c.id = ?'): undefined when
\* the row is gone
AddCommentSelect(s) ==
  LET h == inflight[s]
  IN /\ At(s, "POST /api/tasks/:id/comments", "select")
     /\ Reads
     /\ Continue(s, [h EXCEPT !.row = IF h.count \in DOMAIN comments THEN comments[h.count]
                                      ELSE NoRow,
                              !.pc = "log"])

\* await runQuery('INSERT INTO activity_log ...'), then res.status(201).json
AddCommentLog(s) ==
  LET h == inflight[s]
  IN /\ At(s, "POST /api/tasks/:id/comments", "log")
     /\ Reads
     /\ LogAndReply(s, LogRow(h.user.id, "comment_added", "task", h.id), 201,
                    [comment |-> h.row], "Failed to add comment")

\* db.run calls back with an error (table locked, disk full): from now on the
\* activity_log insert rejects, until the store recovers
LogOutage ==
  /\ activity_log_ok' = ~activity_log_ok
  /\ Suspended
  /\ UNCHANGED <<users, tokens, now, workTables, inflight>>

\* ------------------------------------------------------------ specifications
Slots == 1..MaxInflight

\* no handler is suspended at an await
Quiescent == inflight = <<>>

\* request inputs: the next unused name, names already taken, a fresh address
NextName == Len(users) + 1
FreshEmail == Email(0)
InGlobalRoles == {"admin", "member"}

\* the later database calls of each handler, taken by whichever request is suspended there
RegisterSteps ==
  \E s \in Slots : RegisterCount(s) \/ RegisterInsert(s) \/ RegisterSelect(s) \/ RegisterLog(s)
LoginSteps == \E s \in Slots : LoginCompare(s) \/ LoginLog(s)
GetMeSteps == \E s \in Slots : GetMeAuth(s) \/ GetMeStats(s)
ChangePasswordSteps ==
  \E s \in Slots : \/ ChangePasswordAuth(s) \/ ChangePasswordGetUser(s)
                   \/ ChangePasswordCompare(s) \/ ChangePasswordUpdate(s)
                   \/ ChangePasswordLog(s)
LogoutSteps == \E s \in Slots : LogoutAuth(s) \/ LogoutLog(s)
ListUsersSteps == \E s \in Slots : ListUsersAuth(s) \/ ListUsersSelect(s)
UpdateProfileSteps ==
  \E s \in Slots : \/ UpdateProfileAuth(s) \/ UpdateProfileGetUser(s)
                   \/ UpdateProfileEmail(s) \/ UpdateProfileUpdate(s)
                   \/ UpdateProfileSelect(s) \/ UpdateProfileLog(s)
ChangeRoleSteps ==
  \E s \in Slots : \/ ChangeRoleAuth(s) \/ ChangeRoleGetUser(s) \/ ChangeRoleCount(s)
                   \/ ChangeRoleUpdate(s) \/ ChangeRoleLog(s)
ToggleActiveSteps ==
  \E s \in Slots : \/ ToggleActiveAuth(s) \/ ToggleActiveGetUser(s)
                   \/ ToggleActiveCount(s) \/ ToggleActiveUpdate(s)
                   \/ ToggleActiveLog(s)
ResetPasswordSteps ==
  \E s \in Slots : \/ ResetPasswordAuth(s) \/ ResetPasswordGetUser(s)
                   \/ ResetPasswordUpdate(s) \/ ResetPasswordLog(s)
ListProjectsSteps == \E s \in Slots : ListProjectsAuth(s) \/ ListProjectsSelect(s)
CreateProjectSteps ==
  \E s \in Slots : \/ CreateProjectAuth(s) \/ CreateProjectInsert(s)
                   \/ CreateProjectMember(s) \/ CreateProjectSelect(s)
                   \/ CreateProjectLog(s)
UpdateProjectSteps ==
  \E s \in Slots : \/ UpdateProjectAuth(s) \/ UpdateProjectGetProject(s)
                   \/ UpdateProjectRole(s)
                   \/ UpdateProjectUpdate(s) \/ UpdateProjectSelect(s) \/ UpdateProjectLog(s)
DeleteProjectSteps ==
  \E s \in Slots : \/ DeleteProjectAuth(s) \/ DeleteProjectGetProject(s)
                   \/ DeleteProjectLog(s) \/ DeleteProjectDelete(s)
AddMemberSteps ==
  \E s \in Slots : \/ AddMemberAuth(s) \/ AddMemberGetProject(s)
                   \/ AddMemberRole(s) \/ AddMemberGetUser(s)
                   \/ AddMemberExisting(s) \/ AddMemberInsert(s) \/ AddMemberLog(s)
RemoveMemberSteps ==
  \E s \in Slots : \/ RemoveMemberAuth(s) \/ RemoveMemberGetProject(s)
                   \/ RemoveMemberRole(s)
                   \/ RemoveMemberDelete(s) \/ RemoveMemberLog(s)
ListTasksSteps == \E s \in Slots : ListTasksAuth(s) \/ ListTasksSelect(s)
GetTaskSteps ==
  \E s \in Slots : GetTaskAuth(s) \/ GetTaskSelect(s) \/ GetTaskAccess(s) \/ GetTaskComments(s)
CreateTaskSteps ==
  \E s \in Slots : \/ CreateTaskAuth(s) \/ CreateTaskAccess(s) \/ CreateTaskInsert(s)
                   \/ CreateTaskSelect(s) \/ CreateTaskLog(s)
CreateTaskMemberSteps == \E s \in Slots : CreateTaskMember(s)
GetMyTasksSteps == \E s \in Slots : GetMyTasksAuth(s)
UpdateTaskSteps ==
  \E s \in Slots : \/ UpdateTaskAuth(s) \/ UpdateTaskGetTask(s)
                   \/ UpdateTaskAccess(s) \/ UpdateTaskUpdate(s)
                   \/ UpdateTaskSelect(s) \/ UpdateTaskLog(s)
DeleteTaskSteps ==
  \E s \in Slots : \/ DeleteTaskAuth(s) \/ DeleteTaskGetTask(s)
                   \/ DeleteTaskPermission(s) \/ DeleteTaskLog(s)
                   \/ DeleteTaskDelete(s)
AddCommentSteps ==
  \E s \in Slots : \/ AddCommentAuth(s) \/ AddCommentGetTask(s)
                   \/ AddCommentAccess(s) \/ AddCommentInsert(s)
                   \/ AddCommentSelect(s) \/ AddCommentLog(s)

\* requests
RegisterNew == StartRegister(Username(NextName), Email(NextName), "pw1", "n0")
RegisterTaken ==
  /\ Len(users) > 0
  /\ \/ StartRegister(Username(1), Email(NextName), "pw1", "n0")
     \/ StartRegister(Username(NextName), Email(1), "pw1", "n0")
\* a registration sent while no other request is in flight
RegisterAlone == Quiescent /\ RegisterNew

CreateProjectAny == \E t \in tokens : StartCreateProject(t)
AddMemberAny ==
  \E t \in tokens, pid \in ProjectIds, u \in UserIds, r \in InMemberRoles :
    StartAddMember(t, pid, u, r)
RemoveMemberAny ==
  \E t \in tokens, pid \in ProjectIds, u \in UserIds : StartRemoveMember(t, pid, u)
AddMemberAnyRole ==
  \E t \in tokens, pid \in ProjectIds, u \in UserIds, r \in {"owner", "admin", "member"} :
    StartAddMember(t, pid, u, r)

\* the member list of a project, under requests for every role
NextRoster ==
  \/ RegisterAlone \/ RegisterSteps
  \/ CreateProjectAny \/ CreateProjectSteps
  \/ AddMemberAnyRole \/ AddMemberSteps
  \/ RemoveMemberAny \/ RemoveMemberSteps
SpecRoster == Init /\ [][NextRoster]_vars

ProfileBodies ==
  {[fullName |-> "n1", email |-> NoName], [fullName |-> Absent, email |-> NoName],
   [fullName |-> Absent, email |-> Email(1)], [fullName |-> Absent, email |-> FreshEmail]}
UpdateProfileAny ==
  \E t \in tokens, id \in UserIds, b \in ProfileBodies : StartUpdateProfile(t, id, b)
ChangeRoleAny ==
  \E t \in tokens, id \in UserIds, r \in InGlobalRoles : StartChangeRole(t, id, r)
ToggleActiveAny == \E t \in tokens, id \in UserIds : StartToggleActive(t, id)

\* user administration, one request at a time: registrations, role changes,
\* activation toggles, profile edits, each run to completion before the next
NextUsers ==
  \/ (Quiescent /\ RegisterNew) \/ (Quiescent /\ RegisterTaken)
  \/ (Quiescent /\ UpdateProfileAny) \/ (Quiescent /\ ChangeRoleAny)
  \/ (Quiescent /\ ToggleActiveAny)
  \/ RegisterSteps \/ UpdateProfileSteps \/ ChangeRoleSteps \/ ToggleActiveSteps
SpecUsers == Init /\ [][NextUsers]_vars

LoginAny == \E ident \in Usernames \cup {Email(1)}, p \in Passwords : StartLogin(ident, p)
GetMeAny == \E t \in Presentable : StartGetMe(t)

\* sessions: tokens issued at registration and login, presented as time passes
\* and roles change; only GET /api/auth/me arrives while another request is in flight
NextAuth ==
  \/ (Quiescent /\ RegisterNew) \/ (Quiescent /\ LoginAny)
  \/ (Quiescent /\ ChangeRoleAny) \/ Tick
  \/ GetMeAny
  \/ RegisterSteps \/ LoginSteps \/ GetMeSteps \/ ChangeRoleSteps
SpecAuth == Init /\ [][NextAuth]_vars

ListUsersAny == \E t \in tokens : StartListUsers(t)
ChangeRoleAll == \E t \in tokens, id \in UserIds, r \in GlobalRoles : StartChangeRole(t, id, r)
LogoutAny == \E t \in tokens : StartLogout(t)
ChangePasswordAny == \E t \in tokens : StartChangePassword(t, "pw1", "pw2")
ResetPasswordAny == \E t \in tokens, id \in UserIds : StartResetPassword(t, id, "pw2")

\* user management by admins, managers, members and demoted admins; the other
\* operations arrive while a role change is in flight
NextAdmin ==
  \/ (Quiescent /\ RegisterNew) \/ (Quiescent /\ ChangeRoleAll)
  \/ ListUsersAny \/ ToggleActiveAny \/ ResetPasswordAny
  \/ RegisterSteps \/ ChangeRoleSteps \/ ListUsersSteps \/ ToggleActiveSteps
  \/ ResetPasswordSteps
SpecAdmin == Init /\ [][NextAdmin]_vars

RegisterAtStart == now = 0 /\ RegisterNew
LoginAgain == \E n \in 1..Len(users) : StartLogin(Username(n), "pw1")
GetMeIssued == \E t \in tokens : StartGetMe(t)
ChangeRoleOther ==
  \E t \in tokens : \E id \in UserIds \ {t.userId}, r \in InGlobalRoles :
    StartChangeRole(t, id, r)
ToggleActiveOther ==
  \E t \in tokens : \E id \in UserIds \ {t.userId} : StartToggleActive(t, id)

\* a session's whole life: every operation that might end it, as time passes;
\* GET /api/auth/me presents the token while any of them is in flight
NextSession ==
  \/ (Quiescent /\ RegisterAtStart) \/ (Quiescent /\ LoginAgain)
  \/ (Quiescent /\ LogoutAny) \/ (Quiescent /\ ChangePasswordAny)
  \/ (Quiescent /\ ResetPasswordAny) \/ (Quiescent /\ ChangeRoleOther)
  \/ (Quiescent /\ ToggleActiveOther) \/ Tick
  \/ GetMeIssued
  \/ RegisterSteps \/ LoginSteps \/ GetMeSteps \/ LogoutSteps \/ ChangePasswordSteps
  \/ ResetPasswordSteps \/ ChangeRoleSteps \/ ToggleActiveSteps
SpecSession == Init /\ [][NextSession]_vars

\* demotions and deactivations by two admins in flight together
NextAdminRace ==
  \/ RegisterAlone \/ RegisterSteps
  \/ ChangeRoleAny \/ ChangeRoleSteps \/ ToggleActiveAny \/ ToggleActiveSteps
SpecAdminRace == Init /\ [][NextAdminRace]_vars

StartRegisters ==
  \E n \in 1..MaxUsers, m \in 1..MaxUsers : StartRegister(Username(n), Email(m), "pw1", "n0")

\* registrations in flight together on an empty users table
NextRegisterRace == StartRegisters \/ RegisterSteps
SpecRegisterRace == Init /\ [][NextRegisterRace]_vars

ListProjectsAny == \E t \in tokens : StartListProjects(t)

\* a second admin is made
Promote == Quiescent /\ \E t \in tokens, id \in UserIds : StartChangeRole(t, id, "admin")
PromoteSteps ==
  \E s \in Slots : \/ ChangeRoleAuth(s) \/ ChangeRoleGetUser(s) \/ ChangeRoleUpdate(s)
                   \/ ChangeRoleLog(s)

\* accounts deactivated and reactivated while their owners log in and send requests
NextSuspend ==
  \/ RegisterAlone \/ RegisterSteps
  \/ Promote \/ PromoteSteps
  \/ LoginAny \/ LoginSteps \/ ToggleActiveAny \/ ToggleActiveSteps
  \/ GetMeIssued \/ GetMeSteps \/ ListProjectsAny \/ ListProjectsSteps
  \/ CreateProjectAny \/ CreateProjectSteps
SpecSuspend == Init /\ [][NextSuspend]_vars

NewTaskBodies == [projectId : ProjectIds, assignedTo : {AbsentId} \cup UserIds,
                  status : {Absent} \cup InStatuses]
TaskBodies == [assignedTo : {AbsentId} \cup UserIds, status : {Absent} \cup InStatuses]
ProjectBodies == [name : {Absent, "p2"}, status : {Absent, "archived"}]

ListTasksAny == \E t \in tokens : StartListTasks(t)
GetTaskAny == \E t \in tokens, tid \in TaskIds : StartGetTask(t, tid)
GetMyTasksAny == \E t \in tokens : StartGetMyTasks(t)
CreateTaskAny == \E t \in tokens, b \in NewTaskBodies : StartCreateTask(t, b)
UpdateTaskAny == \E t \in tokens, tid \in TaskIds, b \in TaskBodies : StartUpdateTask(t, tid, b)
UpdateProjectAny ==
  \E t \in tokens, pid \in ProjectIds, b \in ProjectBodies : StartUpdateProject(t, pid, b)
DeleteProjectAny == \E t \in tokens, pid \in ProjectIds : StartDeleteProject(t, pid)
DeleteTaskAny == \E t \in tokens, tid \in TaskIds : StartDeleteTask(t, tid)
AddCommentAny == \E t \in tokens, tid \in TaskIds : StartAddComment(t, tid)
CreateTaskAssigned ==
  \E t \in tokens, p \in ProjectIds, u \in {AbsentId} \cup UserIds :
    StartCreateTask(t, [projectId |-> p, assignedTo |-> u, status |-> Absent])
CreateTaskPlain ==
  \E t \in tokens, p \in ProjectIds :
    StartCreateTask(t, [projectId |-> p, assignedTo |-> AbsentId, status |-> Absent])
CreateTaskFor ==
  \E t \in tokens, p \in ProjectIds, u \in {AbsentId} \cup UserIds, st \in InStatuses :
    StartCreateTask(t, [projectId |-> p, assignedTo |-> u, status |-> st])
EditTask ==
  \E t \in tokens, tid \in TaskIds, u \in {AbsentId, 1}, st \in {Absent, "done"} :
    StartUpdateTask(t, tid, [assignedTo |-> u, status |-> st])
EditProfile ==
  \E t \in tokens, id \in {1}, n \in {Absent, "n1"}, e \in {NoName, FreshEmail} :
    StartUpdateProfile(t, id, [fullName |-> n, email |-> e])
RenameProject ==
  \E t \in tokens, pid \in ProjectIds, n \in {Absent, "p2"} :
    StartUpdateProject(t, pid, [name |-> n, status |-> Absent])

AddViewer ==
  \E t \in tokens, pid \in ProjectIds, u \in UserIds : StartAddMember(t, pid, u, "viewer")

\* the life of a project: staffed, filled with tasks and comments, deleted
NextLife ==
  \/ (Quiescent /\ RegisterNew) \/ (Quiescent /\ CreateProjectAny)
  \/ (Quiescent /\ AddMemberAny)
  \/ CreateTaskAssigned \/ AddCommentAny \/ DeleteTaskAny \/ DeleteProjectAny
  \/ RegisterSteps \/ CreateProjectSteps \/ AddMemberSteps \/ CreateTaskSteps
  \/ CreateTaskMemberSteps \/ AddCommentSteps \/ DeleteTaskSteps \/ DeleteProjectSteps
SpecLife == Init /\ [][NextLife]_vars

\* project administration: editing the project and adding members
NextMembers ==
  \/ (Quiescent /\ RegisterNew) \/ (Quiescent /\ CreateProjectAny)
  \/ AddMemberAny \/ RenameProject
  \/ RegisterSteps \/ CreateProjectSteps \/ AddMemberSteps \/ UpdateProjectSteps
SpecMembers == Init /\ [][NextMembers]_vars

\* the task workflow: projects are staffed while tasks are created, edited and read
Next ==
  \/ (Quiescent /\ RegisterNew) \/ (Quiescent /\ CreateProjectAny)
  \/ (Quiescent /\ AddMemberAny) \/ (Quiescent /\ RemoveMemberAny)
  \/ (Quiescent /\ ListProjectsAny) \/ (Quiescent /\ ListTasksAny)
  \/ (Quiescent /\ CreateTaskAny) \/ (Quiescent /\ UpdateTaskAny)
  \/ GetTaskAny
  \/ RegisterSteps \/ CreateProjectSteps \/ AddMemberSteps \/ RemoveMemberSteps
  \/ ListProjectsSteps \/ ListTasksSteps \/ GetTaskSteps
  \/ CreateTaskSteps \/ CreateTaskMemberSteps \/ UpdateTaskSteps
Spec == Init /\ [][Next]_vars

\* partial updates of tasks, projects and profiles
NextEdit ==
  \/ (Quiescent /\ RegisterNew) \/ (Quiescent /\ CreateProjectAny)
  \/ (Quiescent /\ CreateTaskPlain)
  \/ (Quiescent /\ UpdateProjectAny) \/ (Quiescent /\ EditProfile)
  \/ EditTask
  \/ RegisterSteps \/ CreateProjectSteps \/ CreateTaskSteps
  \/ UpdateTaskSteps \/ UpdateProjectSteps \/ UpdateProfileSteps
SpecEdit == Init /\ [][NextEdit]_vars

\* task writes by owners, viewers and outsiders
NextAccess ==
  \/ (Quiescent /\ RegisterNew) \/ (Quiescent /\ CreateProjectAny)
  \/ (Quiescent /\ AddViewer)
  \/ CreateTaskAssigned \/ EditTask \/ AddCommentAny
  \/ RegisterSteps \/ CreateProjectSteps \/ AddMemberSteps
  \/ CreateTaskSteps \/ CreateTaskMemberSteps \/ UpdateTaskSteps \/ AddCommentSteps
SpecAccess == Init /\ [][NextAccess]_vars

\* members leave a project whose tasks they created or are assigned to
NextLeave ==
  \/ (Quiescent /\ RegisterNew) \/ (Quiescent /\ CreateProjectAny)
  \/ (Quiescent /\ AddMemberAny) \/ (Quiescent /\ CreateTaskAssigned)
  \/ RemoveMemberAny \/ DeleteTaskAny
  \/ RegisterSteps \/ CreateProjectSteps \/ AddMemberSteps \/ RemoveMemberSteps
  \/ CreateTaskSteps \/ CreateTaskMemberSteps \/ DeleteTaskSteps
SpecLeave == Init /\ [][NextLeave]_vars

\* reading one's open tasks
NextMine ==
  \/ (Quiescent /\ RegisterNew) \/ (Quiescent /\ CreateProjectAny)
  \/ (Quiescent /\ AddMemberAny) \/ (Quiescent /\ CreateTaskFor)
  \/ GetTaskAny \/ GetMyTasksAny
  \/ RegisterSteps \/ CreateProjectSteps \/ AddMemberSteps
  \/ CreateTaskSteps \/ CreateTaskMemberSteps \/ GetTaskSteps \/ GetMyTasksSteps
SpecMine == Init /\ [][NextMine]_vars

MarkDone ==
  \E t \in tokens, tid \in TaskIds :
    StartUpdateTask(t, tid, [assignedTo |-> AbsentId, status |-> "done"])

\* a task update and a task delete of the same task in flight together
NextRace ==
  \/ (Quiescent /\ RegisterNew) \/ (Quiescent /\ CreateProjectAny)
  \/ (Quiescent /\ CreateTaskPlain) \/ (Quiescent /\ DeleteTaskAny)
  \/ MarkDone \/ GetTaskAny
  \/ RegisterSteps \/ CreateProjectSteps \/ CreateTaskSteps
  \/ UpdateTaskSteps \/ DeleteTaskSteps \/ GetTaskSteps
SpecRace == Init /\ [][NextRace]_vars

\* mutations while the activity log cannot be written
NextLog ==
  \/ (Quiescent /\ RegisterNew) \/ (Quiescent /\ CreateProjectAny)
  \/ (Quiescent /\ RenameProject) \/ (Quiescent /\ CreateTaskPlain)
  \/ (Quiescent /\ AddCommentAny)
  \/ DeleteTaskAny \/ DeleteProjectAny \/ LogOutage
  \/ RegisterSteps \/ CreateProjectSteps \/ UpdateProjectSteps \/ CreateTaskSteps
  \/ AddCommentSteps \/ DeleteTaskSteps \/ DeleteProjectSteps
SpecLog == Init /\ [][NextLog]_vars
\* ------------------------------------------------------------ properties
OwnerRowOnly ==
  \A p \in DOMAIN projects :
    /\ Member(p, projects[p].owner_id, "owner") \in project_members
    /\ \A m \in project_members :
         (m.project_id = p /\ m.role = "owner") => m.user_id = projects[p].owner_id

\* C22: whenever no request is in flight, every project's owner_id has a
\* project_members row with role owner and no other user has role owner in it.
C22_OwnerIsSoleOwnerMember == Quiescent => OwnerRowOnly

\* a request arrives and is suspended at its first await
Arrival == Len(inflight') = Len(inflight) + 1
Entered == inflight'[Len(inflight')]
\* a request arrives and is answered before any await
AnsweredAtOnce == req'.op # "idle" /\ inflight' = inflight
\* the SELECT of authenticateToken runs for handler s: the chain goes on to
\* the handler's first query with req.user set, or it answers
Admitted(s) ==
  /\ s \in DOMAIN inflight /\ inflight[s].pc = "auth"
  /\ Len(inflight') = Len(inflight) /\ inflight'[s].pc # "auth"
Refused(s) ==
  /\ s \in DOMAIN inflight /\ inflight[s].pc = "auth"
  /\ inflight' = Drop(inflight, s) /\ req'.op = inflight[s].op
Authenticates(s) == Admitted(s) \/ Refused(s)
\* req.user after that step
ReqUser(s) == IF Admitted(s) THEN inflight'[s].user ELSE res'.user
\* the request of handler s moves on from one database call to the next
Moved(s, op, from, to) ==
  At(s, op, from) /\ Len(inflight') = Len(inflight) /\ inflight'[s].pc = to

SomeActiveAdmin == \E i \in 1..Len(users) : users[i].role = "admin" /\ users[i].is_active
SoleActiveAdmin(id) ==
  /\ UserExists(id) /\ users[id].role = "admin" /\ users[id].is_active
  /\ \A i \in 1..Len(users) : (users[i].role = "admin" /\ users[i].is_active) => i = id

\* C2: once the first user is stored, with requests run one after another,
\* some user has role admin and is active in every state; a role change
\* taking admin from the sole active admin never gets past the admin count,
\* it is answered 400 and leaves the users table as it was.
C2_ActiveAdminRetained ==
  /\ [](Len(users) > 0 => SomeActiveAdmin)
  /\ [][\A s \in DOMAIN inflight :
          Moved(s, "PUT /api/users/:id/role", "count", "update")
            => ~SoleActiveAdmin(inflight[s].id)]_vars
  /\ [][(/\ req'.op = "PUT /api/users/:id/role"
         /\ res'.user.role = "admin"
         /\ SoleActiveAdmin(req'.id)
         /\ req'.body.role # "admin")
        => (res'.status = 400 /\ res'.error = "Cannot remove the last admin"
            /\ users' = users)]_vars

C2_Witness ==
  /\ req.op = "PUT /api/users/:id/role"
  /\ res.status = 400
  /\ res.error = "Cannot remove the last admin"
  /\ SoleActiveAdmin(req.id)
  /\ Len(users) > 1

\* C7: with registrations run one after another, the first successful
\* registration creates an admin and reports isFirstUser = true; every later
\* successful registration creates a member.
C7_FirstRegistrantIsAdmin ==
  (req.op = "POST /api/auth/register" /\ res.status = 201) =>
    /\ res.body.user.id = 1 => (res.body.user.role = "admin" /\ res.body.isFirstUser)
    /\ res.body.user.id > 1 => (res.body.user.role = "member" /\ ~res.body.isFirstUser)
    /\ res.body.user.id = Len(users)
    /\ users[res.body.user.id].role = res.body.user.role

C7_Witness ==
  /\ req.op = "POST /api/auth/register"
  /\ res.status = 201
  /\ res.body.user.id = 2
  /\ res.body.user.role = "member"
  /\ users[1].role = "admin"

\* the active admins there would be once user id has the given role
ActiveAdminsAfter(id, role) ==
  {i \in 1..Len(users) :
     (IF i = id THEN role ELSE users[i].role) = "admin" /\ users[i].is_active}

\* C30: a role change by an admin is refused with 'Cannot remove the last
\* admin' only when it takes role admin from a user and would leave no active
\* admin; in particular demoting an inactive admin while another admin is
\* active is accepted.
C30_RefusedOnlyIfNoAdminLeft ==
  [][(/\ req'.op = "PUT /api/users/:id/role"
      /\ res'.user.role = "admin"
      /\ UserExists(req'.id)
      /\ res'.error = "Cannot remove the last admin")
     => ActiveAdminsAfter(req'.id, req'.body.role) = {}]_vars

\* C8 as stated: an authenticated request resolves a principal whose id,
\* username and role are those embedded in the token when it was issued.
C8_PrincipalAsIssued ==
  res.user # NoUser =>
    /\ res.user.id = req.token.userId
    /\ res.user.username = req.token.username
    /\ res.user.role = req.token.role

\* the principal authenticateToken attaches for a token, given the users table
PrincipalOf(token, user) ==
  /\ user.id = token.userId
  /\ user.username = token.username
  /\ user.role = users[token.userId].role

\* C8 amended: a request that authenticates resolves a principal whose id and
\* username are those the token was issued with, and whose role is the role
\* stored in the users table when authenticateToken selects the user.
C8_PrincipalIdIssuedRoleStored ==
  [][\A s \in DOMAIN inflight :
       (Authenticates(s) /\ ReqUser(s) # NoUser) => PrincipalOf(inflight[s].token, ReqUser(s))]_vars

C8_Witness ==
  /\ res.user # NoUser
  /\ res.status = 200
  /\ req.token \in tokens
  /\ res.user.role # req.token.role
  /\ res.user.id = req.token.userId

AuthenticatedOps ==
  {"GET /api/auth/me", "PUT /api/users/:id", "PUT /api/users/:id/role",
   "PUT /api/users/:id/toggle-active"}

Rejected401(message) ==
  /\ res'.status = 401
  /\ res'.error = message
  /\ res'.user = NoUser
  /\ ~res'.handlerRan
  /\ UNCHANGED <<users, tokens, workTables, inflight>>
  /\ logged' = <<>>

\* C9: a request that arrives without a token is answered 401 'Access token
\* required', one whose token is not signed with the secret 401 'Invalid
\* token', one whose signed token has reached its expiry 401 'Token expired';
\* in each case no principal is attached, the user is never selected, no
\* handler is entered and nothing is written.
C9_TokenRejections ==
  [][/\ (Arrival /\ Entered.op \in AuthenticatedOps) =>
          (/\ Entered.token # NoToken /\ Entered.token.key = JWT_SECRET
           /\ now < Entered.token.exp
           /\ Entered.pc = "auth" /\ Entered.user = NoUser)
     /\ (AnsweredAtOnce /\ req'.op \in AuthenticatedOps) =>
          /\ req'.token = NoToken => Rejected401("Access token required")
          /\ (req'.token # NoToken /\ req'.token.key # JWT_SECRET)
               => Rejected401("Invalid token")
          /\ (req'.token # NoToken /\ req'.token.key = JWT_SECRET /\ now >= req'.token.exp)
               => Rejected401("Token expired")]_vars

C9_Witness ==
  /\ req.op \in AuthenticatedOps
  /\ req.token \in tokens
  /\ now >= req.token.exp
  /\ res.status = 401
  /\ res.error = "Token expired"
  /\ inflight = <<>>

\* C10: an authenticated request whose token has less than 86400 seconds left
\* is answered with an X-New-Token header holding a new token of the same
\* user; with 86400 seconds or more left there is no such header.
C10_RefreshHeader ==
  res.user # NoUser =>
    IF req.token.exp - now < RefreshWindow
    THEN res.newToken # NoToken /\ res.newToken.userId = res.user.id
    ELSE res.newToken = NoToken

SessionOps ==
  {"GET /api/auth/me", "POST /api/auth/logout", "POST /api/auth/change-password",
   "POST /api/users/:id/reset-password", "PUT /api/users/:id/role",
   "PUT /api/users/:id/toggle-active"}

\* C11 as stated: every request that presents an issued token before the
\* token's expiry is authenticated as the token's user, whatever logouts,
\* logins, password changes or resets, role changes or activation toggles
\* came before it.
C11_TokenNeverRevoked ==
  [][/\ (AnsweredAtOnce /\ req'.op \in SessionOps /\ req'.token \in tokens)
          => now >= req'.token.exp
     /\ \A s \in DOMAIN inflight :
          (Authenticates(s) /\ inflight[s].op \in SessionOps /\ inflight[s].token \in tokens)
          => ReqUser(s).id = inflight[s].token.userId]_vars

\* C11 amended: every request that presents an issued token before the
\* token's expiry gets past the token check, and is authenticated as the
\* token's user when that user is active as authenticateToken selects it,
\* whatever logouts, logins, password changes or resets and role changes came
\* before it; when the user is deactivated the request is answered 401
\* 'Account is deactivated' and no handler is entered.
C11_TokenValidWhileActive ==
  [][/\ (AnsweredAtOnce /\ req'.op \in SessionOps /\ req'.token \in tokens)
          => now >= req'.token.exp
     /\ \A s \in DOMAIN inflight :
          (Authenticates(s) /\ inflight[s].op \in SessionOps /\ inflight[s].token \in tokens)
          => IF users[inflight[s].token.userId].is_active
             THEN ReqUser(s).id = inflight[s].token.userId
             ELSE /\ Refused(s)
                  /\ res'.status = 401 /\ res'.error = "Account is deactivated"
                  /\ ~res'.handlerRan]_vars

\* a token issued at registration still authenticates after its user's
\* password and role were changed and newer tokens were issued
C11_Witness ==
  /\ req.op = "GET /api/auth/me"
  /\ res.status = 200
  /\ req.token \in tokens
  /\ req.token.exp = JWT_EXPIRY
  /\ now > 0
  /\ users[req.token.userId].password_hash # bcrypt_hash("pw1")
  /\ users[req.token.userId].role # req.token.role
  /\ \E t \in tokens : t.userId = req.token.userId /\ t.exp > req.token.exp

UserAdminOps ==
  {"GET /api/users", "PUT /api/users/:id/role", "PUT /api/users/:id/toggle-active",
   "POST /api/users/:id/reset-password"}

\* C24: a user-management request (list users, change role, toggle active,
\* reset password) with a token that authenticates gets past the role check
\* exactly when the role stored for the token's user as authenticateToken
\* selects it is admin, whatever role the token was issued with; any other
\* requester is answered 403 before any handler is entered, no user record
\* changes and no activity_log row is appended.
C24_UserAdminNeedsStoredAdmin ==
  [][\A s \in DOMAIN inflight :
       (Authenticates(s) /\ inflight[s].op \in UserAdminOps /\ ReqUser(s) # NoUser) =>
         IF users[inflight[s].token.userId].role = "admin"
         THEN Admitted(s) \/ res'.status # 403
         ELSE /\ Refused(s)
              /\ res'.status = 403
              /\ res'.error = "Insufficient permissions"
              /\ ~res'.handlerRan
              /\ users' = users
              /\ logged' = <<>>]_vars

\* a demoted admin presents the token issued while admin and is refused
C24_Witness ==
  /\ req.op = "PUT /api/users/:id/role"
  /\ res.status = 403
  /\ req.token \in tokens
  /\ req.token.role = "admin"
  /\ users[req.token.userId].role = "manager"
  /\ users[req.token.userId].is_active
  /\ SomeActiveAdmin

\* C26: when role demotions and deactivations run with their database steps
\* interleaved, once every request has been answered some user is admin and
\* active.
C26_ActiveAdminSurvivesRace ==
  (Len(users) > 0 /\ Quiescent) => SomeActiveAdmin

\* C27: whatever the interleaving of registrations that start on an empty
\* users table, once a user exists exactly one user has role admin.
C27_OneAdminRegistrant ==
  Len(users) > 0 => Cardinality({i \in 1..Len(users) : users[i].role = "admin"}) = 1

\* the users a login names, by username or by email
Named(ident) == {i \in 1..Len(users) : users[i].username = ident \/ users[i].email = ident}

NothingWritten == UNCHANGED <<users, tokens, workTables, inflight>> /\ logged' = <<>>
NothingStored == UNCHANGED <<users, tokens, workTables>> /\ logged' = <<>>

\* C29: while a user's is_active is 0, every login that selects that user is
\* answered 401 before any handler step and writes nothing, and every request
\* bearing one of that user's unexpired tokens is answered 401 when
\* authenticateToken selects the user, with no principal, no handler entered
\* and nothing written; a toggle naming its requester is answered 400, and
\* the UPDATE of a toggle never touches its requester's row.
C29_DeactivatedIsLockedOut ==
  /\ [][/\ (Arrival /\ Entered.op = "POST /api/auth/login") =>
             \A i \in Named(Entered.body.username) : users[i].is_active
        /\ (/\ AnsweredAtOnce
            /\ req'.op = "POST /api/auth/login"
            /\ \E i \in Named(req'.body.username) : ~users[i].is_active)
           => (res'.status = 401 /\ NothingWritten)]_vars
  /\ [][\A s \in DOMAIN inflight :
          (Authenticates(s) /\ ~users[inflight[s].token.userId].is_active)
          => (/\ Refused(s)
              /\ res'.status = 401 /\ res'.user = NoUser /\ ~res'.handlerRan
              /\ NothingStored)]_vars
  /\ [][\A s \in DOMAIN inflight :
          /\ (/\ Authenticates(s)
              /\ inflight[s].op = "PUT /api/users/:id/toggle-active"
              /\ ReqUser(s).role = "admin"
              /\ inflight[s].id = ReqUser(s).id)
             => (Refused(s) /\ res'.status = 400 /\ users' = users)
          /\ Moved(s, "PUT /api/users/:id/toggle-active", "update", "log") =>
               /\ inflight[s].id # inflight[s].user.id
               /\ users'[inflight[s].user.id] = users[inflight[s].user.id]]_vars

\* a deactivated admin with an unexpired token and the right password is
\* turned away at login
C29_Witness ==
  /\ req.op = "POST /api/auth/login"
  /\ req.body.password = "pw1"
  /\ res.status = 401
  /\ res.error = "Account is deactivated"
  /\ \E i \in Named(req.body.username) :
       /\ ~users[i].is_active
       /\ users[i].role = "admin"
       /\ \E t \in tokens : t.userId = i /\ now < t.exp

\* ------------------------------------------------------------ deletion properties
DeletedProjects == (1..sqlite_sequence.projects) \ DOMAIN projects
DeletedTasks == (1..sqlite_sequence.tasks) \ DOMAIN tasks

\* C12: once a project is deleted, in every later state no task carries its
\* id, no project_members row names it, no comment hangs on one of its tasks
\* and no task list holds anything of it; once a task is deleted no comment
\* of that task remains.
C12_DeleteCascades ==
  /\ \A p \in DeletedProjects :
       /\ \A t \in DOMAIN tasks : tasks[t].project_id # p
       /\ \A m \in project_members : m.project_id # p
       /\ \A uid \in 1..Len(users) : \A t \in listTasks(uid) : tasks[t].project_id # p
  /\ \A t \in DeletedTasks : \A c \in DOMAIN comments : comments[c].task_id # t
  /\ \A c \in DOMAIN comments :
       comments[c].task_id \in DOMAIN tasks
       /\ tasks[comments[c].task_id].project_id \in DOMAIN projects

C12_Witness ==
  /\ req.op = "DELETE /api/projects/:id"
  /\ res.status = 200
  /\ res.changes = 1
  /\ req.id \in DeletedProjects
  /\ DeletedTasks # {}
  /\ sqlite_sequence.comments > 0
  /\ comments = <<>>
  /\ project_members = {}

\* the requester created the task, is its assignee, manages its project or owns it
MayDeleteTask(tid, uid) ==
  LET task == tasks[tid]
  IN \/ task.created_by = uid
     \/ task.assigned_to = uid
     \/ \E m \in project_members :
           /\ m.project_id = task.project_id /\ m.user_id = uid
           /\ m.role \in {"owner", "admin"}
     \/ projects[task.project_id].owner_id = uid

\* C13: when the permission query of DELETE /api/tasks/:id runs on an
\* existing task, the request goes on to the deletion exactly for the task's
\* creator, its assignee, a member of the task's project with role owner or
\* admin, and the project's owner; anyone else is answered 403 and the task
\* and the comments stay as they were; a request answered 200 leaves no such task.
C13_TaskDeletePermission ==
  /\ [][\A s \in DOMAIN inflight :
          (/\ Moved(s, "DELETE /api/tasks/:id", "permission", "log")
           /\ TaskExists(inflight[s].id))
          => MayDeleteTask(inflight[s].id, inflight[s].user.id)]_vars
  /\ [][(/\ req'.op = "DELETE /api/tasks/:id"
         /\ res'.status = 403
         /\ TaskExists(req'.id))
        => /\ ~MayDeleteTask(req'.id, res'.user.id)
           /\ tasks' = tasks /\ comments' = comments]_vars
  /\ [][(req'.op = "DELETE /api/tasks/:id" /\ res'.status = 200)
        => ~(req'.id \in DOMAIN tasks')]_vars

C13_Witness ==
  /\ req.op = "DELETE /api/tasks/:id"
  /\ res.status = 403
  /\ req.id \in DOMAIN tasks
  /\ \E m \in project_members :
       /\ m.project_id = tasks[req.id].project_id /\ m.user_id = res.user.id
       /\ m.role = "member"
  /\ comments # <<>>

\* C15: when DELETE /api/projects/:id finds the project, the request goes on
\* to the deletion exactly for the project's owner_id and for a requester
\* whose global role is admin; anyone else, project admins included, is
\* answered 403 and the project, its tasks and its memberships stay as they
\* were; a request answered 200 leaves no such project.
C15_ProjectDeletePermission ==
  /\ [][\A s \in DOMAIN inflight :
          Moved(s, "DELETE /api/projects/:id", "getProject", "log")
          => (\/ projects[inflight[s].id].owner_id = inflight[s].user.id
              \/ users[inflight[s].user.id].role = "admin")]_vars
  /\ [][(/\ req'.op = "DELETE /api/projects/:id"
         /\ res'.status = 403)
        => /\ ProjectExists(req'.id)
           /\ projects[req'.id].owner_id # res'.user.id
           /\ res'.user.role # "admin"
           /\ UNCHANGED <<projects, tasks, project_members>>]_vars
  /\ [][(req'.op = "DELETE /api/projects/:id" /\ res'.status = 200)
        => ~(req'.id \in DOMAIN projects')]_vars

C15_Witness ==
  /\ req.op = "DELETE /api/projects/:id"
  /\ res.status = 403
  /\ req.id \in DOMAIN projects
  /\ \E m \in project_members :
       m.project_id = req.id /\ m.user_id = res.user.id /\ m.role = "admin"

\* ------------------------------------------------------------ administration properties
ManagerOf(pid, uid) ==
  \/ projects[pid].owner_id = uid
  \/ \E m \in project_members :
        m.project_id = pid /\ m.user_id = uid /\ m.role \in {"owner", "admin"}

ManageOps == {"PUT /api/projects/:id", "POST /api/projects/:id/members"}

\* C14: when the role query of PUT /api/projects/:id or
\* POST /api/projects/:id/members runs on an existing project, the request
\* gets past it exactly when the requester is the owner_id or has a
\* membership row with role owner or admin; any other requester, a global
\* admin without such a row included, is answered 403 and neither projects
\* nor project_members change.
C14_ProjectManageGate ==
  /\ [][\A s \in DOMAIN inflight :
          (/\ \/ Moved(s, "PUT /api/projects/:id", "role", "update")
              \/ Moved(s, "POST /api/projects/:id/members", "role", "getUser")
           /\ ProjectExists(inflight[s].id))
          => ManagerOf(inflight[s].id, inflight[s].user.id)]_vars
  /\ [][(req'.op \in ManageOps /\ res'.user # NoUser /\ ProjectExists(req'.id)) =>
          /\ res'.status = 403 =>
               /\ ~ManagerOf(req'.id, res'.user.id)
               /\ UNCHANGED <<projects, project_members>>
          /\ res'.error = "No fields to update" => ManagerOf(req'.id, res'.user.id)]_vars

C14_Witness ==
  /\ req.op = "PUT /api/projects/:id"
  /\ res.status = 403
  /\ res.user.role = "admin"
  /\ req.id \in DOMAIN projects
  /\ ~MemberRow(req.id, res.user.id)

RemoveOp == "DELETE /api/projects/:id/members/:userId"
SelfRemoval(r, user) == r.op = RemoveOp /\ user # NoUser /\ r.body.userId = user.id
RowGone(pid, uid) ==
  \A m \in project_members' : ~(m.project_id = pid /\ m.user_id = uid)

\* C16 as stated: a requester who has a project_members row for the project
\* and asks to remove their own membership is answered 200 and the row is
\* gone, whatever the role in the row.
C16_SelfRemovalAlways ==
  [][(/\ SelfRemoval(req', res'.user)
      /\ MemberRow(req'.id, res'.user.id)
      /\ Len(inflight) = 1)
     => (res'.status = 200 /\ RowGone(req'.id, res'.user.id))]_vars

\* C16 amended: a request to remove one's own membership is never answered
\* 403; when the requester is the project's owner_id it is answered 400 and
\* the row stays; otherwise its DELETE removes the row when there is one, is
\* answered 404 only when there is none, and the request is answered 200
\* only after a DELETE that removed the row.
C16_SelfRemovalUnlessOwner ==
  /\ [][SelfRemoval(req', res'.user) =>
          /\ res'.status # 403
          /\ (ProjectExists(req'.id) /\ projects[req'.id].owner_id = res'.user.id) =>
               /\ res'.status = 400 /\ res'.error = "Cannot remove project owner"
               /\ project_members' = project_members
          /\ res'.error = "Member not found in project" =>
               ~MemberRow(req'.id, res'.user.id)
          /\ res'.status = 200 => res'.changes = 1]_vars
  /\ [][\A s \in DOMAIN inflight :
          Moved(s, RemoveOp, "delete", "log") =>
            /\ MemberRow(inflight[s].id, inflight[s].body.userId)
            /\ RowGone(inflight[s].id, inflight[s].body.userId)]_vars

C16_Witness ==
  /\ req.op = RemoveOp
  /\ res.status = 200
  /\ req.body.userId = res.user.id
  /\ ~MemberRow(req.id, res.user.id)
  /\ projects[req.id].owner_id # res.user.id

\* ------------------------------------------------------------ membership properties
OneRowPerPair ==
  \A m1 \in project_members, m2 \in project_members :
    (m1.project_id = m2.project_id /\ m1.user_id = m2.user_id) => m1 = m2

AddOp == "POST /api/projects/:id/members"

\* C21: in every reachable state project_members holds at most one row per
\* (project, user) pair; when the membership query of
\* POST /api/projects/:id/members runs, the request goes on to its INSERT
\* only for a user without a row for the project; for a user with a row (the
\* owner included) it is answered 409, project_members stays as it was and no
\* activity_log row is appended.
C21_OneMembershipPerPair ==
  /\ []OneRowPerPair
  /\ [][\A s \in DOMAIN inflight :
          Moved(s, AddOp, "existing", "insert")
            => ~MemberRow(inflight[s].id, inflight[s].body.userId)]_vars
  /\ [][(req'.op = AddOp /\ res'.status \in {409, 500}) =>
          /\ res'.status = 409 => MemberRow(req'.id, req'.body.userId)
          /\ project_members' = project_members
          /\ logged' = <<>>]_vars

C21_Witness ==
  /\ req.op = AddOp
  /\ res.status = 409
  /\ req.id \in DOMAIN projects
  /\ req.body.userId = projects[req.id].owner_id
  /\ res.user.id # projects[req.id].owner_id
  /\ req.body.role = "admin"
  /\ Member(req.id, req.body.userId, "owner") \in project_members
  /\ OneRowPerPair

\* ------------------------------------------------------------ task and project properties
\* the project a task request is about
TargetProject(r) ==
  IF r.op = "POST /api/tasks" THEN r.body.projectId
  ELSE IF TaskExists(r.id) THEN tasks[r.id].project_id ELSE 0

\* the request in slot s is answered in this step
Answered(s) == s \in DOMAIN inflight /\ inflight' = Drop(inflight, s) /\ req'.op = inflight[s].op

\* C1: assigning a task, at creation or by update, to a registered user who
\* is neither the project's owner nor one of its members is answered 400, and
\* no UPDATE of a task stores such an assignee.
C1_NonMemberAssignmentRejected ==
  /\ [][(/\ req'.op \in {"POST /api/tasks", "PUT /api/tasks/:id"}
         /\ res'.user # NoUser
         /\ hasAccess(TargetProject(req'), res'.user.id)
         /\ UserExists(req'.body.assignedTo)
         /\ ~hasAccess(TargetProject(req'), req'.body.assignedTo))
        => res'.status = 400]_vars
  /\ [][\A s \in DOMAIN inflight :
          (/\ Moved(s, "PUT /api/tasks/:id", "update", "select")
           /\ TaskExists(inflight[s].id)
           /\ inflight[s].body.assignedTo # AbsentId)
          => hasAccess(tasks[inflight[s].id].project_id, inflight[s].body.assignedTo)]_vars

\* C3: to a principal without access to its project, GET /api/tasks/:id
\* answers for an existing task as it answers for a task that does not
\* exist: 404 'Task not found'.
C3_HiddenAsNotFound ==
  [][(/\ req'.op = "GET /api/tasks/:id"
      /\ res'.user # NoUser
      /\ TaskExists(req'.id)
      /\ ~hasAccess(tasks[req'.id].project_id, res'.user.id))
     => (res'.status = 404 /\ res'.error = "Task not found")]_vars

OwnerOrMember(pid, uid) ==
  \/ projects[pid].owner_id = uid
  \/ \E m \in project_members : m.project_id = pid /\ m.user_id = uid

\* C4: in every reachable state, for every user U, the unfiltered project
\* list of U holds project P iff U owns P or has a membership row for P, and
\* the unfiltered task list of U holds a task iff the same is true of the
\* task's project; a list response is that set as it is when the list query runs.
C4_ListsFollowAccess ==
  /\ \A uid \in 1..Len(users) :
       /\ listProjects(uid) = {p \in DOMAIN projects : OwnerOrMember(p, uid)}
       /\ listTasks(uid) = {t \in DOMAIN tasks : OwnerOrMember(tasks[t].project_id, uid)}
  /\ (req.op = "GET /api/projects" /\ res.status = 200) =>
       res.body.projects = {p \in DOMAIN projects : OwnerOrMember(p, res.user.id)}
  /\ (req.op = "GET /api/tasks" /\ res.status = 200) =>
       res.body.tasks = {t \in DOMAIN tasks : OwnerOrMember(tasks[t].project_id, res.user.id)}

C4_Witness ==
  /\ req.op = "GET /api/tasks"
  /\ res.status = 200
  /\ res.body.tasks # {}
  /\ \E t \in res.body.tasks : projects[tasks[t].project_id].owner_id # res.user.id

\* C5: the UPDATE of a PUT /api/tasks/:id whose body carries status done
\* leaves the task with a non-null completed_at, one whose body carries
\* another status leaves completed_at null, one whose body carries no status
\* leaves completed_at as it was; a 200 answer returns the row so written.
C5_CompletedAtOnUpdate ==
  /\ [][\A s \in DOMAIN inflight :
          (Moved(s, "PUT /api/tasks/:id", "update", "select") /\ TaskExists(inflight[s].id)) =>
            LET st == inflight[s].body.status
                before == tasks[inflight[s].id].completed_at
                after == tasks'[inflight[s].id].completed_at
            IN /\ st = "done" => after # NULL
               /\ (st # Absent /\ st # "done") => after = NULL
               /\ st = Absent => after = before]_vars
  /\ [][(req'.op = "PUT /api/tasks/:id" /\ res'.status = 200) =>
          LET st == req'.body.status
              row == res'.body.task
          IN /\ st = "done" => row.completed_at # NULL
             /\ (st # Absent /\ st # "done") => row.completed_at = NULL]_vars

C5_Witness ==
  /\ req.op = "PUT /api/tasks/:id"
  /\ res.status = 200
  /\ req.body.status = "done"
  /\ tasks[req.id].completed_at # NULL
  /\ tasks[req.id].status = "done"

\* C6: for every task, completed_at is non-null exactly when status is done.
C6_CompletedIffDone ==
  \A t \in DOMAIN tasks : (tasks[t].completed_at # NULL) <=> (tasks[t].status = "done")

\* ------------------------------------------------------------ update properties
UpdateOps == {"PUT /api/tasks/:id", "PUT /api/projects/:id", "PUT /api/users/:id"}

\* every record of table T other than the one with key k is as it was
OthersKept(T, Tnew, k) ==
  DOMAIN Tnew = DOMAIN T /\ \A x \in DOMAIN T \ {k} : Tnew[x] = T[x]

\* the UPDATE of the update request in slot s runs in this step
Updates(s, op) == Moved(s, op, "update", "select")

\* C17: the UPDATE of a task, a project or a user profile leaves every field
\* the body does not carry as it was (completed_at excepted when a task's
\* status is supplied), stores the body's value in every field it does carry,
\* leaves every other record as it was, and never changes a project's
\* owner_id or a task's project_id or created_by; the steps of the request
\* before and after the UPDATE write no table.
C17_UpdateIsPartial ==
  /\ [][\A s \in DOMAIN inflight :
          LET k == inflight[s].id
              b == inflight[s].body
          IN /\ Updates(s, "PUT /api/tasks/:id") =>
                  /\ OthersKept(tasks, tasks', k)
                  /\ tasks'[k].project_id = tasks[k].project_id
                  /\ tasks'[k].created_by = tasks[k].created_by
                  /\ tasks'[k].assigned_to =
                       (IF b.assignedTo # AbsentId THEN b.assignedTo ELSE tasks[k].assigned_to)
                  /\ tasks'[k].status = (IF b.status # Absent THEN b.status ELSE tasks[k].status)
                  /\ b.status = Absent => tasks'[k].completed_at = tasks[k].completed_at
                  /\ UNCHANGED <<users, projects, project_members, comments>>
             /\ Updates(s, "PUT /api/projects/:id") =>
                  /\ OthersKept(projects, projects', k)
                  /\ projects'[k].owner_id = projects[k].owner_id
                  /\ projects'[k].name = (IF b.name # Absent THEN b.name ELSE projects[k].name)
                  /\ projects'[k].status =
                       (IF b.status # Absent THEN b.status ELSE projects[k].status)
                  /\ UNCHANGED <<users, tasks, project_members, comments>>
             /\ Updates(s, "PUT /api/users/:id") =>
                  /\ Len(users') = Len(users)
                  /\ \A i \in 1..Len(users) : i # k => users'[i] = users[i]
                  /\ users'[k].id = users[k].id
                  /\ users'[k].username = users[k].username
                  /\ users'[k].password_hash = users[k].password_hash
                  /\ users'[k].role = users[k].role
                  /\ users'[k].is_active = users[k].is_active
                  /\ users'[k].full_name =
                       (IF b.fullName # Absent THEN b.fullName ELSE users[k].full_name)
                  /\ users'[k].email = (IF b.email # NoName THEN b.email ELSE users[k].email)
                  /\ UNCHANGED <<projects, tasks, project_members, comments>>]_vars
  /\ [][(req'.op \in UpdateOps \/ (Arrival /\ Entered.op \in UpdateOps))
        => UNCHANGED <<users, projects, project_members, tasks, comments>>]_vars

C17_Witness ==
  /\ req.op = "PUT /api/projects/:id"
  /\ res.status = 200
  /\ req.body.name = "p2"
  /\ req.body.status = Absent
  /\ projects[req.id].name = "p2"
  /\ projects[req.id].status = "active"
  /\ \E t \in DOMAIN tasks : tasks[t].status = "done" /\ tasks[t].assigned_to = NULL
  /\ \E i \in 1..Len(users) : users[i].full_name = "n1" /\ users[i].email = Email(i)

MayUpdate(r, user) ==
  IF r.op = "PUT /api/tasks/:id"
  THEN r.id \in DOMAIN tasks /\ OwnerOrMember(tasks[r.id].project_id, user.id)
  ELSE IF r.op = "PUT /api/projects/:id"
  THEN r.id \in DOMAIN projects /\ ManagerOf(r.id, user.id)
  ELSE r.id \in 1..Len(users) /\ (r.id = user.id \/ user.role = "admin")

\* the body carries none of the fields the update recognizes
EmptyBody(r) ==
  IF r.op = "PUT /api/tasks/:id" THEN r.body.assignedTo = AbsentId /\ r.body.status = Absent
  ELSE IF r.op = "PUT /api/projects/:id" THEN r.body.name = Absent /\ r.body.status = Absent
  ELSE r.body.fullName = Absent /\ r.body.email = NoName

\* C18: an update of a task, a project or a user profile by a requester who
\* may update it, with a body carrying none of the recognized fields, is
\* answered 400 'No fields to update' with no activity_log row, and no such
\* request ever reaches its UPDATE, so no record changes.
C18_EmptyUpdateRejected ==
  /\ [][(/\ req'.op \in UpdateOps
         /\ res'.user # NoUser
         /\ MayUpdate(req', res'.user)
         /\ EmptyBody(req'))
        => /\ res'.status = 400
           /\ res'.error = "No fields to update"
           /\ UNCHANGED <<users, projects, project_members, tasks, comments>>
           /\ logged' = <<>>]_vars
  /\ [][\A s \in DOMAIN inflight' :
          (inflight'[s].op \in UpdateOps /\ inflight'[s].pc \in {"update", "select", "log"})
          => ~EmptyBody(inflight'[s])]_vars

C18_Witness ==
  /\ req.op = "PUT /api/projects/:id"
  /\ EmptyBody(req)
  /\ res.status = 400
  /\ res.error = "No fields to update"
  /\ req.id \in DOMAIN projects
  /\ logged = <<>>

\* ------------------------------------------------------------ activity log properties
MutatingOps ==
  {"POST /api/projects", "POST /api/tasks", "PUT /api/tasks/:id", "DELETE /api/tasks/:id"}

\* C19: a request that changes a stored record appends exactly one
\* activity_log row, with the requester as its user_id; a request that
\* changes no record (a read, a rejected request, an update or a delete whose
\* statement found no row) appends none; so too for a task update and a task
\* delete of the same task handled in interleaved steps.
C19_OneRowPerMutation ==
  /\ (req.op \in MutatingOps /\ res.status \in {200, 201} /\ res.changes > 0) =>
       (Len(logged) = 1 /\ logged[1].user_id = res.user.id)
  /\ res.status \in {400, 401, 403, 404, 409} => logged = <<>>
  /\ (req.op # "idle" /\ res.changes = 0) => logged = <<>>

\* the activity_log insert of the request in slot s fails in this step
LogFailed(s) ==
  /\ Answered(s)
  /\ inflight[s].pc = "log"
  /\ ~activity_log_ok
  /\ res'.status = 500

\* C20: when the activity_log insert of a mutating request fails, the
\* creation, update or deletion the request describes is applied all the
\* same: the failing step writes no table, a creation or an update has
\* already run, and a task or a project to be deleted is gone.
C20_LogFailureKeepsMutation ==
  [][\A s \in DOMAIN inflight :
       LogFailed(s) =>
         /\ UNCHANGED <<users, projects, project_members, tasks, comments>>
         /\ IF inflight[s].op = "DELETE /api/tasks/:id" THEN ~TaskExists(inflight[s].id)
            ELSE IF inflight[s].op = "DELETE /api/projects/:id"
            THEN ~ProjectExists(inflight[s].id)
            ELSE inflight[s].changes = 1]_vars

\* ------------------------------------------------------------ task access properties
ProjectAccess(pid, uid) == pid \in DOMAIN projects /\ OwnerOrMember(pid, uid)

TaskWriteOps == {"POST /api/tasks", "PUT /api/tasks/:id", "POST /api/tasks/:id/comments"}

ValidWrite(r) ==
  IF r.op = "POST /api/tasks"
  THEN /\ r.body.status \in TaskStatuses \cup {Absent}
       /\ (r.body.assignedTo = AbsentId \/ ProjectAccess(r.body.projectId, r.body.assignedTo))
  ELSE IF r.op = "PUT /api/tasks/:id"
  THEN /\ TaskExists(r.id)
       /\ r.body.status \in TaskStatuses \cup {Absent}
       /\ ~(r.body.assignedTo = AbsentId /\ r.body.status = Absent)
       /\ (r.body.assignedTo = AbsentId \/ UserExists(r.body.assignedTo))
  ELSE TaskExists(r.id)

\* the project the access query of the task write in slot s asks about
AskedProject(h) == IF h.op = "POST /api/tasks" THEN h.body.projectId ELSE h.row.project_id

\* C23: the access query of POST /api/tasks, PUT /api/tasks/:id and
\* POST /api/tasks/:id/comments lets the request on only for a requester who
\* owns the project or has a project_members row for it, whatever the role
\* in the row; such a request with valid input is answered 200 or 201, and
\* anyone else is answered 403 while tasks and comments stay as they were.
C23_TaskWritesFollowAccess ==
  /\ [][\A s \in DOMAIN inflight :
          (/\ inflight[s].op \in TaskWriteOps
           /\ inflight[s].pc = "access"
           /\ Len(inflight') = Len(inflight)
           /\ inflight'[s].pc # "access")
          => ProjectAccess(AskedProject(inflight[s]), inflight[s].user.id)]_vars
  /\ [][(req'.op \in TaskWriteOps /\ res'.user # NoUser) =>
          LET uid == res'.user.id
              pid == TargetProject(req')
          IN /\ res'.status \in {200, 201} => ProjectAccess(pid, uid)
             /\ res'.status = 403 =>
                  (~ProjectAccess(pid, uid) /\ UNCHANGED <<tasks, comments>>)
             /\ ValidWrite(req') =>
                  IF ProjectAccess(pid, uid) THEN res'.status \in {200, 201}
                  ELSE res'.status = 403]_vars

C23_Witness ==
  /\ req.op = "POST /api/tasks/:id/comments"
  /\ res.status = 201
  /\ req.id \in DOMAIN tasks
  /\ Member(tasks[req.id].project_id, res.user.id, "viewer") \in project_members
  /\ tasks[req.id].created_by = res.user.id
  /\ tasks[req.id].status = "done"
  /\ \E c \in DOMAIN comments : comments[c].user_id = res.user.id

\* C25: GET /api/tasks/my-tasks by an authenticated user is answered 200 with
\* exactly the tasks whose assigned_to is that user and whose status is
\* neither done nor cancelled.
C25_MyTasksReturnsOpenAssigned ==
  (req.op = "GET /api/tasks/my-tasks" /\ res.user # NoUser) =>
    /\ res.status = 200
    /\ res.body.tasks =
         {t \in DOMAIN tasks :
            tasks[t].assigned_to = res.user.id /\ tasks[t].status \notin {"done", "cancelled"}}

\* C28: whenever DELETE /api/tasks/:id deletes a task and is answered 200, the
\* requester owns the task's project or has a project_members row for it at
\* that moment; a user removed from the project can no longer delete its
\* tasks, not even those they created or are assigned to.
C28_TaskDeleteNeedsAccess ==
  [][(req'.op = "DELETE /api/tasks/:id" /\ res'.status = 200 /\ TaskExists(req'.id)) =>
       ProjectAccess(tasks[req'.id].project_id, res'.user.id)]_vars
====
